---- MODULE Spec2Model ----
(***************************************************************************)
(* Model of the product_manager pipeline:                                  *)
(*   src/src/transformer.py  - transform_product, generate_platform_file,  *)
(*                             column_letter_to_index                      *)
(*   src/src/translator.py   - translate_input_file                        *)
(*   src/src/config.py       - platforms, reference templates              *)
(*   src/src/config/deepl_config.py, src/src/utils/translation.py          *)
(*                           - DeepLUsageTracker, DeepLService.translate   *)
(*   src/src/core/transformer.py - MultimarketplaceTransformer             *)
(* Spreadsheet cells, pandas NaN and Python None are modelled by strings;  *)
(* None stands for "no value" (None / NaN / empty cell).                   *)
(***************************************************************************)
EXTENDS Integers, Sequences, FiniteSets, TLC

VARIABLES
    \* ---- configuration files read by generate_platform_file
    mapping,      \* load_mapping(): sequence (dict order) of attribute configs
    attributes,   \* load_attributes(): [same, platform_specific]
    input_df,     \* load_input(): sequence of product rows
    files_ok,     \* which reads succeeded: [mapping, input]
    tmpl,         \* shape of the reference templates: [header_rows, data]
    ref,          \* REF_TEMPLATES files: platform -> [exists, rows]
    out,          \* output files: platform -> [exists, rows]
    \* ---- generate_platform_file locals
    pc, platform, ws, next_row, idx, ret, runs,
    \* ---- observation of the run (what each loop iteration computed)
    glog,
    \* ---- translate_input_file
    tr,
    \* ---- column_letter_to_index
    col,
    \* ---- load_attributes
    la,
    \* ---- DeepLService and its DeepLUsageTracker
    dl,
    \* ---- MultimarketplaceTransformer.generate_all_platforms
    mt

genVars == <<mapping, attributes, input_df, files_ok, tmpl, ref, out,
             pc, platform, ws, next_row, idx, ret, runs, glog>>
vars == <<mapping, attributes, input_df, files_ok, tmpl, ref, out,
          pc, platform, ws, next_row, idx, ret, runs, glog, tr, col,
          la, dl, mt>>

None == "None"

notna(v) == v /= None

\* ------------------------------------------------------------------ bounds
MaxAttrs == 2
MaxProducts == 2
MaxOldRows == 2
MaxRuns == 2

\* ------------------------------------------------------------- characters
Letters == <<"A","B","C","D","E","F","G","H","I","J","K","L","M",
             "N","O","P","Q","R","S","T","U","V","W","X","Y","Z">>
LowerLetters == <<"a","b","c","d","e","f","g","h","i","j","k","l","m",
                  "n","o","p","q","r","s","t","u","v","w","x","y","z">>

UpperSet == {Letters[i] : i \in 1..26}
LowerSet == {LowerLetters[i] : i \in 1..26}
\* position in the alphabet, upper case of a lower-case letter and back
AlphaPos == [c \in UpperSet \cup LowerSet |->
               CHOOSE i \in 1..26 : Letters[i] = c \/ LowerLetters[i] = c]
IsUpperChar(c) == c \in UpperSet
IsLowerChar(c) == c \in LowerSet

\* ord(char) for the characters the model uses
ord(c) ==
    IF IsUpperChar(c) THEN 64 + AlphaPos[c]
    ELSE IF IsLowerChar(c) THEN 96 + AlphaPos[c]
    ELSE IF c = "1" THEN 49
    ELSE 32

\* str.upper() on one character
upper_char(c) ==
    IF IsLowerChar(c) THEN Letters[AlphaPos[c]] ELSE c

\* str.upper() on a string (a sequence of characters)
upper(s) == [i \in 1..Len(s) |-> upper_char(s[i])]

\* str.strip(): drop leading and trailing blanks
RECURSIVE lstrip(_)
lstrip(s) == IF Len(s) > 0 /\ s[1] = " " THEN lstrip(Tail(s)) ELSE s
RECURSIVE rstrip(_)
rstrip(s) == IF Len(s) > 0 /\ s[Len(s)] = " "
             THEN rstrip(SubSeq(s, 1, Len(s) - 1)) ELSE s
strip(s) == rstrip(lstrip(s))

\* ------------------------------------------------------------ dict helpers
\* A Python dict is a sequence of <<key, value>> pairs in insertion order.
DictHas(d, k) == \E i \in 1..Len(d) : d[i][1] = k
DictGet(d, k) == d[CHOOSE i \in 1..Len(d) : d[i][1] = k][2]
DictPut(d, k, v) ==
    IF DictHas(d, k)
    THEN [i \in 1..Len(d) |-> IF d[i][1] = k THEN <<k, v>> ELSE d[i]]
    ELSE Append(d, <<k, v>>)

\* 'attr' in mapping, mapping[attr]
MappingHas(m, a) == \E k \in 1..Len(m) : m[k].attribute = a
MappingGet(m, a) == m[CHOOSE k \in 1..Len(m) : m[k].attribute = a]

\* ------------------------------------------------------- column addresses
\* letter_step with a zero digit (A = 0)
letter_step_zero_digit(result, char) == result * 26 + (ord(char) - ord("A"))

\* One iteration of the loop of column_letter_to_index (transformer.py:245)
letter_step(result, char) == result * 26 + (ord(char) - ord("A") + 1)

RECURSIVE letter_fold(_, _)
letter_fold(s, result) ==
    IF Len(s) = 0 THEN result
    ELSE letter_fold(Tail(s), letter_step(result, s[1]))

\* transformer.py:232-246, returns the 0-based index
column_letter_to_index(column_letter) ==
    letter_fold(strip(upper(column_letter)), 0) - 1

\* openpyxl.utils.column_index_from_string as called at transformer.py:326:
\* the 1-based index of a column name of one to three letters (A..ZZZ),
\* ValueError (modelled as 0) for anything else.
MaxColLetters == 3
ColumnNameValid(s) ==
    /\ Len(s) >= 1
    /\ Len(s) <= MaxColLetters
    /\ \A i \in 1..Len(s) : IsUpperChar(upper_char(s[i]))

column_index_from_string(s) ==
    IF ColumnNameValid(s) THEN letter_fold(upper(s), 0) ELSE 0

\* ------------------------------------------------------------- worksheets
\* A worksheet is a sequence of rows; a row maps the columns that hold a
\* value to that value (a row without values is the empty function).
BlankRow == <<>>
RowHasData(row) == DOMAIN row /= {}
CellValue(sheet, r, c) ==
    IF r \in 1..Len(sheet) /\ c \in DOMAIN sheet[r] THEN sheet[r][c] ELSE None

\* ws.cell(row=r, column=c).value = v
SetCell(sheet, r, c, v) ==
    LET padded == [i \in 1..(IF r > Len(sheet) THEN r ELSE Len(sheet)) |->
                      IF i <= Len(sheet) THEN sheet[i] ELSE BlankRow]
        newrow == [x \in (DOMAIN padded[r]) \cup {c} |->
                      IF x = c THEN v ELSE padded[r][x]]
    IN [padded EXCEPT ![r] = newrow]

\* ws.delete_rows(first, amount) as openpyxl documents it: rows
\* first..first+amount-1 go away and the rows below move up
delete_rows(sheet, first, amount) ==
    LET kept == {i \in 1..Len(sheet) : i < first \/ i >= first + amount}
        n == Cardinality(kept)
    IN [i \in 1..n |-> IF i < first THEN sheet[i] ELSE sheet[i + amount]]

HeaderRows == 2
FirstDataRow == 3
NextRowStart_two == HeaderRows
NextRowStart == 3

\* transformer.py:289-292
last_data_row(sheet) ==
    LET S == {r \in FirstDataRow..Len(sheet) : RowHasData(sheet[r])}
    IN IF S = {} THEN HeaderRows ELSE CHOOSE r \in S : \A q \in S : q <= r

\* clear_data_rows that takes the sheet to have one header row
clear_data_rows_one_header(sheet) ==
    IF last_data_row(sheet) > HeaderRows
    THEN delete_rows(sheet, 2, last_data_row(sheet) - 1)
    ELSE sheet

clear_data_rows_off1(sheet) ==
    IF last_data_row(sheet) > HeaderRows
    THEN delete_rows(sheet, FirstDataRow, last_data_row(sheet) - FirstDataRow)
    ELSE sheet

\* transformer.py:287-296
clear_data_rows(sheet) ==
    IF last_data_row(sheet) > HeaderRows
    THEN delete_rows(sheet, FirstDataRow, last_data_row(sheet) - HeaderRows)
    ELSE sheet

\* --------------------------------------------------------- Row Transformer
\* resolve_value with the two scope branches exchanged
resolve_value_swapped(attr_config, product_row, p, attrs) ==
    LET attribute == attr_config.attribute
    IN IF attr_config.data_source = "punch_card"
       THEN IF attr_config.value_type = "platform_specific"
            THEN IF attribute \in DOMAIN attrs.same
                 THEN attrs.same[attribute] ELSE None
            ELSE IF /\ attribute \in DOMAIN attrs.platform_specific
                    /\ p \in DOMAIN attrs.platform_specific[attribute]
                 THEN attrs.platform_specific[attribute][p] ELSE None
       ELSE IF attribute \in DOMAIN product_row THEN product_row[attribute]
            ELSE None

\* resolve_value that falls back to some platform's value when the
\* requested platform has none
resolve_value_fallback(attr_config, product_row, p, attrs) ==
    LET attribute == attr_config.attribute
    IN IF attr_config.data_source = "punch_card"
       THEN IF attr_config.value_type = "same"
            THEN IF attribute \in DOMAIN attrs.same
                 THEN attrs.same[attribute] ELSE None
            ELSE IF attribute \in DOMAIN attrs.platform_specific
            THEN LET pv == attrs.platform_specific[attribute]
                 IN IF p \in DOMAIN pv THEN pv[p]
                    ELSE pv[CHOOSE q \in DOMAIN pv : TRUE]
            ELSE None
       ELSE IF attribute \in DOMAIN product_row THEN product_row[attribute]
            ELSE None


\* resolve_value that hands back an empty string for an INPUT_FILE
\* attribute the product has no value for
resolve_value_empty_string(attr_config, product_row, p, attrs) ==
    LET attribute == attr_config.attribute
    IN IF attr_config.data_source = "punch_card"
       THEN IF attr_config.value_type = "same"
            THEN IF attribute \in DOMAIN attrs.same
                 THEN attrs.same[attribute] ELSE None
            ELSE IF attr_config.value_type = "platform_specific"
            THEN IF /\ attribute \in DOMAIN attrs.platform_specific
                    /\ p \in DOMAIN attrs.platform_specific[attribute]
                 THEN attrs.platform_specific[attribute][p] ELSE None
            ELSE None
       ELSE IF attr_config.data_source = "input_file"
       THEN IF attribute \in DOMAIN product_row /\ notna(product_row[attribute])
            THEN product_row[attribute]
            ELSE IF attribute = "desciption_fr" /\ "description_fr" \in DOMAIN product_row
            THEN product_row["description_fr"]
            ELSE IF attribute = "description_fr" /\ "desciption_fr" \in DOMAIN product_row
            THEN product_row["desciption_fr"]
            ELSE ""
       ELSE None

\* transformer.py:194-220: the value of one attribute for one platform
resolve_value(attr_config, product_row, p, attrs) ==
    LET attribute == attr_config.attribute
    IN IF attr_config.data_source = "punch_card"
       THEN IF attr_config.value_type = "same"
            THEN IF attribute \in DOMAIN attrs.same
                 THEN attrs.same[attribute] ELSE None
            ELSE IF attr_config.value_type = "platform_specific"
            THEN IF /\ attribute \in DOMAIN attrs.platform_specific
                    /\ p \in DOMAIN attrs.platform_specific[attribute]
                 THEN attrs.platform_specific[attribute][p] ELSE None
            ELSE None
       ELSE IF attr_config.data_source = "input_file"
       THEN IF attribute \in DOMAIN product_row /\ notna(product_row[attribute])
            THEN product_row[attribute]
            ELSE IF attribute = "desciption_fr" /\ "description_fr" \in DOMAIN product_row
            THEN product_row["description_fr"]
            ELSE IF attribute = "description_fr" /\ "desciption_fr" \in DOMAIN product_row
            THEN product_row["desciption_fr"]
            ELSE None
       ELSE None

\* transform_loop that keeps the first value recorded for an address
RECURSIVE transform_loop_first_wins(_, _, _, _, _, _)
transform_loop_first_wins(k, result, product_row, p, m, attrs) ==
    IF k > Len(m) THEN result
    ELSE IF p \notin DOMAIN m[k].columns
    THEN transform_loop_first_wins(k + 1, result, product_row, p, m, attrs)
    ELSE LET value == resolve_value(m[k], product_row, p, attrs)
         IN IF value = None \/ DictHas(result, m[k].columns[p])
            THEN transform_loop_first_wins(k + 1, result, product_row, p, m,
                                           attrs)
            ELSE transform_loop_first_wins(
                   k + 1, DictPut(result, m[k].columns[p], value),
                   product_row, p, m, attrs)

\* transform_loop that borrows another platform's column when the
\* attribute has none for p
RECURSIVE transform_loop_any_platform(_, _, _, _, _, _)
transform_loop_any_platform(k, result, product_row, p, m, attrs) ==
    IF k > Len(m) THEN result
    ELSE IF DOMAIN m[k].columns = {}
    THEN transform_loop_any_platform(k + 1, result, product_row, p, m, attrs)
    ELSE LET q == IF p \in DOMAIN m[k].columns THEN p
                  ELSE CHOOSE x \in DOMAIN m[k].columns : TRUE
             value == resolve_value(m[k], product_row, q, attrs)
         IN IF value = None
            THEN transform_loop_any_platform(k + 1, result, product_row, p, m,
                                             attrs)
            ELSE transform_loop_any_platform(
                   k + 1, DictPut(result, m[k].columns[q], value),
                   product_row, p, m, attrs)

\* transformer.py:183-227: the loop over mapping.items(), from position k
RECURSIVE transform_loop(_, _, _, _, _, _)
transform_loop(k, result, product_row, p, m, attrs) ==
    IF k > Len(m) THEN result
    ELSE IF p \notin DOMAIN m[k].columns
    THEN transform_loop(k + 1, result, product_row, p, m, attrs)
    ELSE LET value == resolve_value(m[k], product_row, p, attrs)
         IN IF value = None
            THEN transform_loop(k + 1, result, product_row, p, m, attrs)
            ELSE transform_loop(k + 1, DictPut(result, m[k].columns[p], value),
                                product_row, p, m, attrs)

\* transformer.py:163-229
transform_product(product_row, p, m, attrs) ==
    transform_loop(1, <<>>, product_row, p, m, attrs)

\* the local `value` of every iteration of the loop ("skip" when the
\* attribute has no column for the platform, transformer.py:189-190)
resolved_values(product_row, p, m, attrs) ==
    [k \in 1..Len(m) |->
        IF p \notin DOMAIN m[k].columns THEN "skip"
        ELSE resolve_value(m[k], product_row, p, attrs)]

\* ean_rule that keeps a value already resolved for the shop_sku column
ean_rule_keep(column_values, product_row, p, m) ==
    IF /\ "ean" \in DOMAIN product_row
       /\ notna(product_row["ean"])
       /\ MappingHas(m, "shop_sku")
       /\ p \in DOMAIN MappingGet(m, "shop_sku").columns
       /\ ~DictHas(column_values, MappingGet(m, "shop_sku").columns[p])
    THEN DictPut(column_values, MappingGet(m, "shop_sku").columns[p],
                 product_row["ean"])
    ELSE column_values

\* transformer.py:305-320: the two rules applied after transform_product
ean_rule(column_values, product_row, p, m) ==
    IF /\ "ean" \in DOMAIN product_row
       /\ notna(product_row["ean"])
       /\ MappingHas(m, "shop_sku")
       /\ p \in DOMAIN MappingGet(m, "shop_sku").columns
    THEN DictPut(column_values, MappingGet(m, "shop_sku").columns[p],
                 product_row["ean"])
    ELSE column_values

desciption_rule(column_values, product_row, p, m) ==
    IF /\ MappingHas(m, "desciption_fr")
       /\ p \in DOMAIN MappingGet(m, "desciption_fr").columns
    THEN LET desciption_col == MappingGet(m, "desciption_fr").columns[p]
         IN IF /\ "description_fr" \in DOMAIN product_row
               /\ notna(product_row["description_fr"])
            THEN DictPut(column_values, desciption_col,
                         product_row["description_fr"])
            ELSE IF /\ "desciption_fr" \in DOMAIN product_row
                    /\ notna(product_row["desciption_fr"])
            THEN DictPut(column_values, desciption_col,
                         product_row["desciption_fr"])
            ELSE column_values
    ELSE column_values

\* transformer.py:303-320
product_column_values(product_row, p, m, attrs) ==
    desciption_rule(
        ean_rule(transform_product(product_row, p, m, attrs),
                 product_row, p, m),
        product_row, p, m)

\* write_cells that gives up on the rest of the row at the first address
\* that is rejected
RECURSIVE write_cells_abort(_, _, _, _)
write_cells_abort(sheet, row, column_values, i) ==
    IF i > Len(column_values) THEN sheet
    ELSE LET col_idx == column_index_from_string(column_values[i][1])
         IN IF col_idx = 0 THEN sheet
            ELSE write_cells_abort(
                   SetCell(sheet, row, col_idx, column_values[i][2]),
                   row, column_values, i + 1)

\* transformer.py:323-333: write the values of one product on one row; an
\* address that column_index_from_string rejects is skipped
RECURSIVE write_cells(_, _, _, _)
write_cells(sheet, row, column_values, i) ==
    IF i > Len(column_values) THEN sheet
    ELSE LET col_idx == column_index_from_string(column_values[i][1])
         IN IF col_idx = 0
            THEN write_cells(sheet, row, column_values, i + 1)
            ELSE write_cells(SetCell(sheet, row, col_idx, column_values[i][2]),
                             row, column_values, i + 1)

\* ------------------------------------------------------------ config.py
PLATFORMS == {"castorama_fr", "leroy_merlin"}
\* platforms generate_platform_file is called for: the two above, and one
\* that is in REF_TEMPLATES but whose template file is not there
RunPlatforms == PLATFORMS \cup {"maxeda_be"}

\* get_output_file_path: one output path per platform (the path is named by
\* the platform key)
get_output_file_path(p) == p

NoFile == [exists |-> FALSE, rows |-> <<>>]
File(rows) == [exists |-> TRUE, rows |-> rows]

\* ------------------------------------------------------------ input sets
ColB == <<"B">>
ColC == <<"C">>
ColAA == <<"A", "A">>

AttrRow(a, vt, ds, cols) ==
    [attribute |-> a, value_type |-> vt, data_source |-> ds, columns |-> cols]

TitleRow == AttrRow("title", "same", "input_file", ("castorama_fr" :> ColC))
TitlePsRow == AttrRow("title", "platform_specific", "input_file",
                      ("castorama_fr" :> ColC @@ "leroy_merlin" :> ColB))
BrandRow == AttrRow("brand", "same", "punch_card",
                    ("castorama_fr" :> ColB @@ "leroy_merlin" :> ColAA))
WarrantyRow == AttrRow("warranty", "platform_specific", "punch_card",
                       ("castorama_fr" :> ColB @@ "leroy_merlin" :> ColC))
ShopSkuRow == AttrRow("shop_sku", "same", "punch_card",
                      ("castorama_fr" :> ColB @@ "leroy_merlin" :> ColB))
DesciptionRow == AttrRow("desciption_fr", "same", "input_file",
                         ("castorama_fr" :> ColB @@ "leroy_merlin" :> ColAA))
\* a column letter typed in lower case, and an address that is no column
ColorRow == AttrRow("color", "same", "punch_card",
                    ("castorama_fr" :> <<"b">> @@ "leroy_merlin" :> <<"1">>))

AttrRows == {TitleRow, TitlePsRow, BrandRow, WarrantyRow, ShopSkuRow,
             DesciptionRow, ColorRow}

SeqsUpTo(S, n) == UNION {[1..k -> S] : k \in 0..n}

\* mapping tables: attribute names are the keys of a dict, hence distinct
MappingTables ==
    {m \in SeqsUpTo(AttrRows, MaxAttrs) :
        \A i, j \in 1..Len(m) : i /= j => m[i].attribute /= m[j].attribute}

EmptyDict == <<>>
SameValues == ("brand" :> "Acme" @@ "shop_sku" :> "SKU0" @@ "color" :> "Red")
Stores ==
    { [same |-> SameValues,
       platform_specific |-> ("warranty" :> ("castorama_fr" :> "2y"))],
      [same |-> SameValues,
       platform_specific |-> ("warranty" :> ("leroy_merlin" :> "3y"))],
      [same |-> EmptyDict, platform_specific |-> EmptyDict] }

Product(t, e, d1, d2) ==
    ("title" :> t @@ "ean" :> e @@ "description_fr" :> d1 @@ "desciption_fr" :> d2)
Products == { Product("Widget", "EAN1", None, None),
              Product("Gadget", None, "DescFR", "DescOld"),
              Product(None, "EAN2", "DescFR", None),
              Product(None, None, None, None) }
\* a catalog whose only column is title
NarrowCatalogs == { <<("title" :> "Widget")>>,
                    <<("title" :> "Widget"), ("title" :> "Gadget")>> }
Catalogs == SeqsUpTo(Products, MaxProducts) \cup NarrowCatalogs
\* catalogs of MaxProducts products: the products in turn, from each one on
ProductList == << Product("Widget", "EAN1", None, None),
                 Product("Gadget", None, "DescFR", "DescOld"),
                 Product(None, "EAN2", "DescFR", None),
                 Product(None, None, None, None) >>
FullCatalogs ==
    {[i \in 1..MaxProducts |-> ProductList[((i + k - 1) % 4) + 1]] : k \in 0..3}
SmallCatalogs ==
    {<<>>, <<ProductList[1]>>, <<ProductList[1], ProductList[2]>>}
    \cup NarrowCatalogs

OldRow == (1 :> "old" @@ 2 :> "old" @@ 3 :> "old")
HeaderRow(p) == (1 :> p @@ 2 :> p @@ 3 :> p)
DataPatterns == {[i \in 1..n |-> OldRow] : n \in 0..MaxOldRows}
                \cup {<<OldRow, BlankRow, OldRow>>, <<OldRow, BlankRow>>}
Templates == [header_rows : {1, 2}, data : DataPatterns]
TemplateRows(p, t) == [i \in 1..t.header_rows |-> HeaderRow(p)] \o t.data

NoLog == [row_of |-> <<>>, cvs |-> <<>>, tps |-> <<>>, vals |-> <<>>,
          last |-> "none", failed |-> {},
          out0 |-> [p \in RunPlatforms |-> NoFile],
          nsaved |-> [p \in RunPlatforms |-> 0],
          first_out |-> [p \in RunPlatforms |-> NoFile]]

trIdle == [pc |-> "off"]
colIdle == [pc |-> "off"]
laIdle == [pc |-> "off"]
dlIdle == [pc |-> "off"]
mtIdle == [pc |-> "off"]
auxIdle == la = laIdle /\ dl = dlIdle /\ mt = mtIdle

\* transformer.py:23-63: the table read from mapping.xlsx, the empty dict
\* when reading or parsing it raised
load_mapping(ok, table) == IF ok THEN table ELSE <<>>

\* transformer.py:115-132: the rows of the input file, an empty DataFrame
\* when reading it raised
load_input(ok, rows) == IF ok THEN rows ELSE <<>>

\* a file left at an output path by some earlier run
StaleFile == File(<<(1 :> "stale"), (1 :> "stale"), OldRow, OldRow, OldRow,
                    (2 :> "stale")>>)

\* ------------------------------------------------- generate_platform_file
InitConfigs ==
    \/ /\ mapping \in MappingTables
       /\ attributes \in Stores
       /\ input_df \in FullCatalogs
       /\ files_ok = [mapping |-> TRUE, input |-> TRUE]
       /\ tmpl = [header_rows |-> 2, data |-> <<OldRow>>]
       /\ out = [p \in RunPlatforms |-> NoFile]
    \/ /\ mapping \in {<<TitleRow>>, <<ShopSkuRow, DesciptionRow>>}
       /\ attributes = [same |-> SameValues, platform_specific |-> EmptyDict]
       /\ input_df \in Catalogs
       /\ files_ok = [mapping |-> TRUE, input |-> TRUE]
       /\ tmpl = [header_rows |-> 2, data |-> <<OldRow>>]
       /\ out = [p \in RunPlatforms |-> NoFile]
    \/ /\ \E mok \in BOOLEAN, iok \in BOOLEAN :
            /\ files_ok = [mapping |-> mok, input |-> iok]
            /\ \E table \in {<<TitleRow>>, <<TitlePsRow, ShopSkuRow>>} :
                  mapping = load_mapping(mok, table)
            /\ \E rows \in SmallCatalogs : input_df = load_input(iok, rows)
       /\ attributes = [same |-> SameValues, platform_specific |-> EmptyDict]
       /\ tmpl \in Templates
       /\ out \in {[p \in RunPlatforms |-> NoFile],
                   [p \in RunPlatforms |-> StaleFile]}

Init ==
    /\ InitConfigs
    /\ ref = [p \in RunPlatforms |->
                IF p \in PLATFORMS THEN File(TemplateRows(p, tmpl)) ELSE NoFile]
    /\ pc = "idle"
    /\ platform = "castorama_fr"
    /\ ws = <<>>
    /\ next_row = NextRowStart
    /\ idx = 1
    /\ ret = None
    /\ runs = 0
    /\ glog = [NoLog EXCEPT !.out0 = out]
    /\ tr = trIdle
    /\ col = colIdle
    /\ auxIdle

\* GenStart that also gives up when the mapping table is empty
GenStart_need_mapping(p) ==
    /\ pc = "idle"
    /\ runs < MaxRuns
    /\ platform' = p
    /\ runs' = runs + 1
    /\ ret' = None
    /\ IF Len(input_df) = 0 \/ Len(mapping) = 0 \/ ~ref[p].exists
       THEN /\ pc' = "idle"
            /\ out' = out
            /\ glog' = [glog EXCEPT !.row_of = <<>>, !.cvs = <<>>, !.tps = <<>>,
                                    !.vals = <<>>, !.last = "failed",
                                    !.failed = IF Len(input_df) = 0 THEN @
                                               ELSE @ \cup {p}]
       ELSE /\ pc' = "copied"
            /\ out' = [out EXCEPT ![get_output_file_path(p)] = ref[p]]
            /\ glog' = [glog EXCEPT !.row_of = <<>>, !.cvs = <<>>, !.tps = <<>>,
                                    !.vals = <<>>, !.last = "running"]
    /\ UNCHANGED <<mapping, attributes, input_df, files_ok, tmpl, ref, ws,
                   next_row, idx, tr, col, la, dl, mt>>

\* GenStart that works on the file already at the output path when there
\* is one, and copies the template only otherwise
GenStart_keep_existing(p) ==
    /\ pc = "idle"
    /\ runs < MaxRuns
    /\ platform' = p
    /\ runs' = runs + 1
    /\ ret' = None
    /\ IF Len(input_df) = 0 \/ ~ref[p].exists
       THEN /\ pc' = "idle"
            /\ out' = out
            /\ glog' = [glog EXCEPT !.row_of = <<>>, !.cvs = <<>>, !.tps = <<>>,
                                    !.vals = <<>>, !.last = "failed",
                                    !.failed = IF Len(input_df) = 0 THEN @
                                               ELSE @ \cup {p}]
       ELSE /\ pc' = "copied"
            /\ out' = IF out[get_output_file_path(p)].exists THEN out
                      ELSE [out EXCEPT ![get_output_file_path(p)] = ref[p]]
            /\ glog' = [glog EXCEPT !.row_of = <<>>, !.cvs = <<>>, !.tps = <<>>,
                                    !.vals = <<>>, !.last = "running"]
    /\ UNCHANGED <<mapping, attributes, input_df, files_ok, tmpl, ref, ws,
                   next_row, idx, tr, col, la, dl, mt>>

\* GenStart that leaves an empty file at the output path when the template
\* is missing
GenStart_touch_output(p) ==
    /\ pc = "idle"
    /\ runs < MaxRuns
    /\ platform' = p
    /\ runs' = runs + 1
    /\ ret' = None
    /\ IF Len(input_df) = 0 \/ ~ref[p].exists
       THEN /\ pc' = "idle"
            /\ out' = IF Len(input_df) = 0 THEN out
                      ELSE [out EXCEPT ![get_output_file_path(p)] = File(<<>>)]
            /\ glog' = [glog EXCEPT !.row_of = <<>>, !.cvs = <<>>, !.tps = <<>>,
                                    !.vals = <<>>, !.last = "failed",
                                    !.failed = IF Len(input_df) = 0 THEN @
                                               ELSE @ \cup {p}]
       ELSE /\ pc' = "copied"
            /\ out' = [out EXCEPT ![get_output_file_path(p)] = ref[p]]
            /\ glog' = [glog EXCEPT !.row_of = <<>>, !.cvs = <<>>, !.tps = <<>>,
                                    !.vals = <<>>, !.last = "running"]
    /\ UNCHANGED <<mapping, attributes, input_df, files_ok, tmpl, ref, ws,
                   next_row, idx, tr, col, la, dl, mt>>

\* transformer.py:265-281: load the configuration, give up on an empty
\* catalog, copy the reference template to the output path
GenStart(p) ==
    /\ pc = "idle"
    /\ runs < MaxRuns
    /\ platform' = p
    /\ runs' = runs + 1
    /\ ret' = None
    /\ IF Len(input_df) = 0 \/ ~ref[p].exists
       THEN /\ pc' = "idle"
            /\ out' = out
            /\ glog' = [glog EXCEPT !.row_of = <<>>, !.cvs = <<>>, !.tps = <<>>,
                                    !.vals = <<>>, !.last = "failed",
                                    !.failed = IF Len(input_df) = 0 THEN @
                                               ELSE @ \cup {p}]
       ELSE /\ pc' = "copied"
            /\ out' = [out EXCEPT ![get_output_file_path(p)] = ref[p]]
            /\ glog' = [glog EXCEPT !.row_of = <<>>, !.cvs = <<>>, !.tps = <<>>,
                                    !.vals = <<>>, !.last = "running"]
    /\ UNCHANGED <<mapping, attributes, input_df, files_ok, tmpl, ref, ws, next_row, idx,
                   tr, col, la, dl, mt>>

GenClear_stale_next_row ==
    /\ pc = "copied"
    /\ ws' = clear_data_rows(out[get_output_file_path(platform)].rows)
    /\ next_row' = IF runs = 1 THEN NextRowStart ELSE next_row
    /\ idx' = 1
    /\ pc' = "rows"
    /\ UNCHANGED <<mapping, attributes, input_df, files_ok, tmpl, ref, out, platform,
                   ret, runs, glog, tr, col, la, dl, mt>>

\* transformer.py:283-300: load the copy, clear the old data rows
GenClear ==
    /\ pc = "copied"
    /\ ws' = clear_data_rows(out[get_output_file_path(platform)].rows)
    /\ next_row' = NextRowStart
    /\ idx' = 1
    /\ pc' = "rows"
    /\ UNCHANGED <<mapping, attributes, input_df, files_ok, tmpl, ref, out, platform,
                   ret, runs, glog, tr, col, la, dl, mt>>

\* GenProduct that ends the run without an artifact at a product for which
\* nothing was resolved
GenProduct_abort_empty ==
    /\ pc = "rows"
    /\ idx <= Len(input_df)
    /\ LET product_row == input_df[idx]
           column_values ==
               product_column_values(product_row, platform, mapping, attributes)
       IN IF Len(column_values) = 0
          THEN /\ pc' = "idle"
               /\ ret' = None
               /\ glog' = [glog EXCEPT !.last = "failed"]
               /\ UNCHANGED <<ws, next_row, idx>>
          ELSE /\ ws' = write_cells(ws, next_row, column_values, 1)
               /\ glog' = [glog EXCEPT
                      !.row_of = Append(@, next_row),
                      !.cvs = Append(@, column_values),
                      !.tps = Append(@, transform_product(product_row, platform,
                                                          mapping, attributes)),
                      !.vals = Append(@, resolved_values(product_row, platform,
                                                         mapping, attributes))]
               /\ next_row' = next_row + 1
               /\ idx' = idx + 1
               /\ UNCHANGED <<pc, ret>>
    /\ UNCHANGED <<mapping, attributes, input_df, files_ok, tmpl, ref, out,
                   platform, runs, tr, col, la, dl, mt>>

\* GenProduct that moves to the next row only after a product that wrote
\* something
GenProduct_skip_blank ==
    /\ pc = "rows"
    /\ idx <= Len(input_df)
    /\ LET product_row == input_df[idx]
           column_values ==
               product_column_values(product_row, platform, mapping, attributes)
       IN /\ ws' = write_cells(ws, next_row, column_values, 1)
          /\ next_row' = IF Len(column_values) = 0 THEN next_row ELSE next_row + 1
          /\ glog' = [glog EXCEPT
                 !.row_of = Append(@, next_row),
                 !.cvs = Append(@, column_values),
                 !.tps = Append(@, transform_product(product_row, platform,
                                                     mapping, attributes)),
                 !.vals = Append(@, resolved_values(product_row, platform,
                                                    mapping, attributes))]
    /\ idx' = idx + 1
    /\ UNCHANGED <<mapping, attributes, input_df, files_ok, tmpl, ref, out, pc, platform,
                   ret, runs, tr, col, la, dl, mt>>

\* GenProduct that keeps filling the column_values of the product before
GenProduct_carry_values ==
    /\ pc = "rows"
    /\ idx <= Len(input_df)
    /\ LET product_row == input_df[idx]
           fresh ==
               product_column_values(product_row, platform, mapping, attributes)
           before == IF Len(glog.cvs) = 0 THEN <<>>
                     ELSE glog.cvs[Len(glog.cvs)]
           Kept(entry) == ~DictHas(fresh, entry[1])
           column_values == SelectSeq(before, Kept) \o fresh
       IN /\ ws' = write_cells(ws, next_row, column_values, 1)
          /\ glog' = [glog EXCEPT
                 !.row_of = Append(@, next_row),
                 !.cvs = Append(@, column_values),
                 !.tps = Append(@, transform_product(product_row, platform,
                                                     mapping, attributes)),
                 !.vals = Append(@, resolved_values(product_row, platform,
                                                    mapping, attributes))]
    /\ next_row' = next_row + 1
    /\ idx' = idx + 1
    /\ UNCHANGED <<mapping, attributes, input_df, files_ok, tmpl, ref, out, pc, platform,
                   ret, runs, tr, col, la, dl, mt>>

\* transformer.py:301-335: one iteration of the loop over the products
GenProduct ==
    /\ pc = "rows"
    /\ idx <= Len(input_df)
    /\ LET product_row == input_df[idx]
           column_values ==
               product_column_values(product_row, platform, mapping, attributes)
       IN /\ ws' = write_cells(ws, next_row, column_values, 1)
          /\ glog' = [glog EXCEPT
                 !.row_of = Append(@, next_row),
                 !.cvs = Append(@, column_values),
                 !.tps = Append(@, transform_product(product_row, platform,
                                                     mapping, attributes)),
                 !.vals = Append(@, resolved_values(product_row, platform,
                                                    mapping, attributes))]
    /\ next_row' = next_row + 1
    /\ idx' = idx + 1
    /\ UNCHANGED <<mapping, attributes, input_df, files_ok, tmpl, ref, out, pc, platform,
                   ret, runs, tr, col, la, dl, mt>>

\* GenSave that saves the workbook over the reference template as well
GenSave_over_template ==
    /\ pc = "rows"
    /\ idx > Len(input_df)
    /\ out' = [out EXCEPT ![get_output_file_path(platform)] = File(ws)]
    /\ ref' = [ref EXCEPT ![platform] = File(ws)]
    /\ ret' = get_output_file_path(platform)
    /\ pc' = "idle"
    /\ glog' = [glog EXCEPT
           !.last = "saved",
           !.nsaved = [@ EXCEPT ![platform] = @ + 1],
           !.first_out = IF @[platform].exists THEN @
                         ELSE [@ EXCEPT ![platform] = File(ws)]]
    /\ UNCHANGED <<mapping, attributes, input_df, files_ok, tmpl, platform, ws,
                   next_row, idx, runs, tr, col, la, dl, mt>>

\* transformer.py:337-341: save the workbook, return the output path
GenSave ==
    /\ pc = "rows"
    /\ idx > Len(input_df)
    /\ out' = [out EXCEPT ![get_output_file_path(platform)] = File(ws)]
    /\ ret' = get_output_file_path(platform)
    /\ pc' = "idle"
    /\ glog' = [glog EXCEPT
           !.last = "saved",
           !.nsaved = [@ EXCEPT ![platform] = @ + 1],
           !.first_out = IF @[platform].exists THEN @
                         ELSE [@ EXCEPT ![platform] = File(ws)]]
    /\ UNCHANGED <<mapping, attributes, input_df, files_ok, tmpl, ref, platform, ws,
                   next_row, idx, runs, tr, col, la, dl, mt>>

Next ==
    \/ \E p \in RunPlatforms : GenStart(p)
    \/ GenClear
    \/ GenProduct
    \/ GenSave

Spec == Init /\ [][Next]_vars

\* ================================================= generate_platform_file
Saved == pc = "idle" /\ glog.last = "saved"
OutRows == out[get_output_file_path(platform)].rows
NumProducts == Len(input_df)
CheckCols == 1..27

\* the value one product leaves in column c: that of the last entry of its
\* column_values whose address is column c
ExpectedCell(cv, c) ==
    LET J == {j \in 1..Len(cv) : column_index_from_string(cv[j][1]) = c}
    IN IF J = {} THEN None
       ELSE cv[CHOOSE j \in J : \A q \in J : q <= j][2]

\* data region starting below h header rows: the products' rows, nothing
\* after them, nothing of the template's data rows
DataRegionIsCatalog(h) ==
    /\ \A i \in 1..NumProducts : \A c \in CheckCols :
          CellValue(OutRows, h + i, c) = ExpectedCell(glog.cvs[i], c)
    /\ \A r \in 1..Len(OutRows) : r > h + NumProducts => ~RowHasData(OutRows[r])
    /\ \A r \in 1..Len(OutRows) : r > h =>
          \A c \in DOMAIN OutRows[r] : OutRows[r][c] /= "old"

\* C1 as stated: after a successful run the output holds the M products on
\* rows H+1..H+M, H being the template's header row count, and no cell of the
\* template's N data rows remains.
C1_Original == Saved => DataRegionIsCatalog(tmpl.header_rows)

\* C1 amended: the header region is rows 1-2 whatever the template; for a
\* template with two header rows the output holds exactly the M products on
\* rows 3..M+2 and no cell of the N old data rows remains.
C1_ClearedAndRewritten ==
    (Saved /\ tmpl.header_rows = HeaderRows) => DataRegionIsCatalog(HeaderRows)

C1_Witness ==
    /\ Saved
    /\ tmpl.header_rows = HeaderRows
    /\ Len(tmpl.data) = 3
    /\ NumProducts = 1
    /\ Len(glog.cvs[1]) > 0

\* C1, the other two cases: as many products as old rows, and more
C1_WitnessMore ==
    /\ Saved
    /\ tmpl.header_rows = HeaderRows
    /\ Len(tmpl.data) = 1
    /\ NumProducts = 2
    /\ Len(glog.cvs[2]) > 0

\* C4: an attribute with source punch_card and scope same that has a stored
\* value resolves to that stored value for every platform that has a column
\* for it and for every product, and transform_product returns it for the
\* column unless a later attribute resolved a value for the same column.
C4_SameStaticValue ==
    \A i \in 1..Len(glog.vals) : \A k \in 1..Len(mapping) :
        (/\ mapping[k].data_source = "punch_card"
         /\ mapping[k].value_type = "same"
         /\ mapping[k].attribute \in DOMAIN attributes.same
         /\ platform \in DOMAIN mapping[k].columns)
        => /\ glog.vals[i][k] = attributes.same[mapping[k].attribute]
           /\ (\A k2 \in (k + 1)..Len(mapping) :
                    \/ platform \notin DOMAIN mapping[k2].columns
                    \/ mapping[k2].columns[platform] /= mapping[k].columns[platform]
                    \/ glog.vals[i][k2] = None)
              => /\ DictHas(glog.tps[i], mapping[k].columns[platform])
                 /\ DictGet(glog.tps[i], mapping[k].columns[platform])
                       = attributes.same[mapping[k].attribute]

C4_Witness ==
    /\ Len(glog.vals) = 2
    /\ input_df[1] /= input_df[2]
    /\ platform = "leroy_merlin"
    /\ \E k \in 1..Len(mapping) :
          /\ mapping[k] = BrandRow
          /\ glog.vals[1][k] = "Acme"
          /\ glog.vals[2][k] = "Acme"
          /\ DictHas(glog.tps[2], ColAA)
          /\ DictGet(glog.tps[2], ColAA) = "Acme"

StoreHolds(a, p) ==
    /\ a \in DOMAIN attributes.platform_specific
    /\ p \in DOMAIN attributes.platform_specific[a]

OtherPlatformValues(a, p) ==
    IF a \in DOMAIN attributes.platform_specific
    THEN {attributes.platform_specific[a][q] :
             q \in (DOMAIN attributes.platform_specific[a]) \ {p}}
    ELSE {}

\* C5 as stated: an attribute of scope platform_specific, whatever its
\* source, resolves to no value for a platform the store holds no value for.
C5_Original ==
    \A i \in 1..Len(glog.vals) : \A k \in 1..Len(mapping) :
        (/\ mapping[k].value_type = "platform_specific"
         /\ platform \in DOMAIN mapping[k].columns
         /\ ~StoreHolds(mapping[k].attribute, platform))
        => glog.vals[i][k] = None

\* C5 amended: an attribute of source punch_card and scope platform_specific
\* resolves to no value for a platform the store holds no value for, never
\* to another platform's value, and transform_product records nothing for a
\* column for which no attribute resolved a value.
C5_NoValueForPlatform ==
    \A i \in 1..Len(glog.vals) : \A k \in 1..Len(mapping) :
        (/\ mapping[k].value_type = "platform_specific"
         /\ mapping[k].data_source = "punch_card"
         /\ platform \in DOMAIN mapping[k].columns
         /\ ~StoreHolds(mapping[k].attribute, platform))
        => /\ glog.vals[i][k] = None
           /\ glog.vals[i][k] \notin OtherPlatformValues(mapping[k].attribute, platform)
           /\ (\A k2 \in 1..Len(mapping) :
                    \/ platform \notin DOMAIN mapping[k2].columns
                    \/ mapping[k2].columns[platform] /= mapping[k].columns[platform]
                    \/ glog.vals[i][k2] = None)
              => ~DictHas(glog.tps[i], mapping[k].columns[platform])

C5_Witness ==
    /\ Len(glog.vals) >= 1
    /\ platform = "leroy_merlin"
    /\ mapping = <<WarrantyRow>>
    /\ StoreHolds("warranty", "castorama_fr")
    /\ ~StoreHolds("warranty", "leroy_merlin")
    /\ glog.tps[1] = <<>>

\* C6: a second run for the same platform, with the same mapping, store,
\* catalog and reference template, leaves the same rows in the output as the
\* first run did.
C6_Idempotent ==
    (Saved /\ glog.first_out[platform].exists)
    => OutRows = glog.first_out[platform].rows

C6_Witness ==
    /\ Saved
    /\ glog.nsaved[platform] = 2
    /\ NumProducts = 2
    /\ Len(glog.cvs[2]) > 0

\* C7 as stated: product i is written on row H+i, H being the template's
\* header row count.
C7_Original ==
    \A i \in 1..Len(glog.row_of) : glog.row_of[i] = tmpl.header_rows + i

\* C7 amended: products are written in catalog order on consecutive rows
\* starting at row 3 (the first row after the two rows kept as headers), one
\* row per product also when a product resolves to no value.
C7_ConsecutiveRows ==
    /\ \A i \in 1..Len(glog.row_of) : glog.row_of[i] = HeaderRows + i
    /\ \A i, j \in 1..Len(glog.row_of) : i < j => glog.row_of[i] < glog.row_of[j]
    /\ Saved => Len(glog.row_of) = NumProducts
    /\ Saved => \A i \in 1..NumProducts : \A j \in 1..Len(glog.cvs[i]) :
          ColumnNameValid(glog.cvs[i][j][1]) =>
             \E j2 \in 1..Len(glog.cvs[i]) :
                CellValue(OutRows, HeaderRows + i,
                          column_index_from_string(glog.cvs[i][j][1]))
                   = glog.cvs[i][j2][2]

C7_Witness ==
    /\ Saved
    /\ NumProducts = 2
    /\ Len(glog.cvs[1]) = 0
    /\ Len(glog.cvs[2]) > 0
    /\ glog.row_of = <<3, 4>>
    /\ RowHasData(OutRows[4])

C8_Scenario ==
    /\ Saved
    /\ platform = "castorama_fr"
    /\ mapping = <<TitleRow>>
    /\ NumProducts >= 1
    /\ input_df[1]["title"] = "Widget"

\* C8 as stated: with a template of one header row, "Widget" is in C2 and
\* the second product's value in C3.
C8_Original ==
    (C8_Scenario /\ tmpl.header_rows = 1)
    => /\ CellValue(OutRows, 2, 3) = "Widget"
       /\ (NumProducts >= 2 /\ input_df[2]["title"] = "Gadget")
            => CellValue(OutRows, 3, 3) = "Gadget"

\* C8 amended: whatever the header row count of the template, the first
\* product's values are on row 3 and the second product's on row 4: with
\* title -> C and product {title: "Widget"}, "Widget" is written to C3.
C8_WidgetInC3 ==
    C8_Scenario
    => /\ CellValue(OutRows, 3, 3) = "Widget"
       /\ (NumProducts >= 2 /\ input_df[2]["title"] = "Gadget")
            => CellValue(OutRows, 4, 3) = "Gadget"

C8_Witness ==
    /\ C8_Scenario
    /\ tmpl.header_rows = 1
    /\ NumProducts = 2
    /\ input_df[2]["title"] = "Gadget"
    /\ CellValue(OutRows, 4, 3) = "Gadget"

HasEan(product_row) ==
    "ean" \in DOMAIN product_row /\ notna(product_row["ean"])
ShopSkuMapped ==
    /\ MappingHas(mapping, "shop_sku")
    /\ platform \in DOMAIN MappingGet(mapping, "shop_sku").columns
ShopSkuCol == MappingGet(mapping, "shop_sku").columns[platform]

\* C9 as stated: the cell of the shop_sku column on the product's row holds
\* the product's ean.
C9_Original ==
    Saved => \A i \in 1..NumProducts :
        (HasEan(input_df[i]) /\ ShopSkuMapped /\ ColumnNameValid(ShopSkuCol))
        => CellValue(OutRows, HeaderRows + i, column_index_from_string(ShopSkuCol))
              = input_df[i]["ean"]

HasDescription(product_row) ==
    \/ "description_fr" \in DOMAIN product_row /\ notna(product_row["description_fr"])
    \/ "desciption_fr" \in DOMAIN product_row /\ notna(product_row["desciption_fr"])

\* the desciption_fr rule writes to the shop_sku address for this product
DesciptionTakesSkuCol(product_row) ==
    /\ MappingHas(mapping, "desciption_fr")
    /\ platform \in DOMAIN MappingGet(mapping, "desciption_fr").columns
    /\ MappingGet(mapping, "desciption_fr").columns[platform] = ShopSkuCol
    /\ HasDescription(product_row)

\* another attribute spells the shop_sku column differently (b for B)
OtherSpellingOfSkuCol ==
    \E k \in 1..Len(mapping) :
        /\ platform \in DOMAIN mapping[k].columns
        /\ mapping[k].columns[platform] /= ShopSkuCol
        /\ column_index_from_string(mapping[k].columns[platform])
              = column_index_from_string(ShopSkuCol)

\* C9 amended: the ean is what the shop_sku cell holds, also when generic
\* resolution produced another value for it, unless the desciption_fr rule
\* writes the product's description to the same address; the column is
\* addressed by one spelling.
C9_EanInShopSku ==
    Saved => \A i \in 1..NumProducts :
        (/\ HasEan(input_df[i]) /\ ShopSkuMapped /\ ColumnNameValid(ShopSkuCol)
         /\ ~DesciptionTakesSkuCol(input_df[i])
         /\ ~OtherSpellingOfSkuCol)
        => /\ CellValue(OutRows, HeaderRows + i, column_index_from_string(ShopSkuCol))
                 = input_df[i]["ean"]
           /\ DictGet(glog.cvs[i], ShopSkuCol) = input_df[i]["ean"]

C9_Witness ==
    /\ Saved
    /\ platform = "castorama_fr"
    /\ mapping = <<ShopSkuRow, TitleRow>>
    /\ NumProducts >= 1
    /\ HasEan(input_df[1])
    /\ input_df[1]["ean"] = "EAN1"
    /\ DictHas(glog.tps[1], ColB)
    /\ DictGet(glog.tps[1], ColB) = "SKU0"
    /\ CellValue(OutRows, 3, 2) = "EAN1"

\* the header rows of a sheet are those of the platform's reference template
HeaderSame(sheet, p) ==
    \A r \in 1..tmpl.header_rows :
        r <= Len(sheet) /\ sheet[r] = ref[p].rows[r]

\* C11: every cell of the template's leading header rows (one or two) has
\* the same value in the sheet being written and in every artifact a run
\* saved as in the reference template, whatever the catalog and the mapping.
C11_HeaderUntouched ==
    /\ pc = "rows" => HeaderSame(ws, platform)
    /\ \A p \in PLATFORMS :
          (glog.nsaved[p] > 0 /\ (pc = "idle" \/ platform /= p))
          => HeaderSame(out[get_output_file_path(p)].rows, p)

C11_Witness ==
    /\ Saved
    /\ tmpl.header_rows = 2
    /\ Len(tmpl.data) >= 1
    /\ NumProducts = 2
    /\ Len(glog.cvs[1]) > 0
    /\ OutRows[1] = HeaderRow(platform)
    /\ OutRows[2] = HeaderRow(platform)
    /\ RowHasData(OutRows[3])

HasInvalidAddress(cv) == \E j \in 1..Len(cv) : ~ColumnNameValid(cv[j][1])
ValidColumns(cv) ==
    {column_index_from_string(cv[j][1]) :
        j \in {x \in 1..Len(cv) : ColumnNameValid(cv[x][1])}}

\* C12: when a product has an address that is no column, only that cell is
\* skipped: every valid address of the product holds its value on the
\* product's row and nothing else is on that row, every product has its row,
\* and the run saves the artifact and returns its path.
C12_InvalidAddressSkipped ==
    (Saved /\ \E i \in 1..Len(glog.cvs) : HasInvalidAddress(glog.cvs[i]))
    => /\ ret = get_output_file_path(platform)
       /\ out[get_output_file_path(platform)].exists
       /\ Len(glog.row_of) = NumProducts
       /\ \A i \in 1..NumProducts :
             /\ \A c \in ValidColumns(glog.cvs[i]) :
                   CellValue(OutRows, glog.row_of[i], c)
                      = ExpectedCell(glog.cvs[i], c)
             /\ \A c \in CheckCols \ ValidColumns(glog.cvs[i]) :
                   CellValue(OutRows, glog.row_of[i], c) = None

C12_Witness ==
    /\ Saved
    /\ platform = "leroy_merlin"
    /\ mapping = <<ColorRow, BrandRow>>
    /\ NumProducts = 2
    /\ Len(glog.cvs[1]) = 2
    /\ glog.cvs[1][1] = << <<"1">>, "Red" >>
    /\ CellValue(OutRows, 3, 27) = "Acme"
    /\ CellValue(OutRows, 4, 27) = "Acme"
    /\ ret = get_output_file_path("leroy_merlin")

\* transformer.py:283-338 as a function of the inputs: the rows saved for
\* platform p when the run goes through
RECURSIVE write_products(_, _, _, _)
write_products(sheet, p, i, row) ==
    IF i > Len(input_df) THEN sheet
    ELSE write_products(
           write_cells(sheet, row,
                       product_column_values(input_df[i], p, mapping, attributes),
                       1),
           p, i + 1, row + 1)
generate_result(p) ==
    write_products(clear_data_rows(ref[p].rows), p, 1, NextRowStart)

\* C13: a call for a platform whose reference template is missing returns
\* None and leaves every output path as it was; a later call for a platform
\* whose template exists returns its path and saves what the inputs
\* determine, as without the failed call.
C13_TemplateMissing ==
    /\ [][(pc = "idle" /\ runs' = runs + 1 /\ ~ref[platform'].exists)
          => (out' = out /\ ret' = None /\ pc' = "idle")]_vars
    /\ [](\A p \in RunPlatforms :
            (~ref[p].exists) => out[get_output_file_path(p)] = glog.out0[p])
    /\ []((Saved /\ glog.failed /= {})
          => /\ ret = get_output_file_path(platform)
             /\ out[get_output_file_path(platform)]
                   = File(generate_result(platform)))

C13_Witness ==
    /\ Saved
    /\ glog.failed = {"maxeda_be"}
    /\ runs = 2
    /\ platform = "castorama_fr"
    /\ ~out[get_output_file_path("maxeda_be")].exists
    /\ ret = get_output_file_path("castorama_fr")
    /\ Len(OutRows) >= 3
    /\ RowHasData(OutRows[3])

\* a call of generate_platform_file has returned
RunEnded == pc = "idle" /\ glog.last \in {"failed", "saved"}

C16_FullyOverwritten ==
    Saved
    => /\ OutRows = generate_result(platform)
       /\ \A r \in 1..Len(OutRows) : \A c \in DOMAIN OutRows[r] :
             OutRows[r][c] /= "stale"
       /\ Len(OutRows) <= (IF HeaderRows + NumProducts > Len(ref[platform].rows)
                           THEN HeaderRows + NumProducts
                           ELSE Len(ref[platform].rows))

C16_Witness ==
    /\ Saved
    /\ glog.out0[platform] = StaleFile
    /\ glog.nsaved[platform] = 2
    /\ NumProducts = 1
    /\ Len(glog.cvs[1]) > 0
    /\ Len(OutRows) = 3
    /\ OutRows = generate_result(platform)

\* C17: when the mapping table could not be read, load_mapping gave the
\* empty table, and a run with a product catalog and an existing template
\* does not fail: no value is resolved for any product, the saved sheet is
\* the template with the old data rows cleared and nothing written, and the
\* path is returned.
C17_EmptyMapping ==
    /\ ~files_ok.mapping => mapping = <<>>
    /\ (RunEnded /\ ~files_ok.mapping /\ NumProducts > 0
           /\ ref[platform].exists)
       => /\ Saved
          /\ ret = get_output_file_path(platform)
          /\ Len(glog.cvs) = NumProducts
          /\ \A i \in 1..NumProducts : glog.cvs[i] = <<>>
          /\ OutRows = clear_data_rows(ref[platform].rows)
          /\ \A r \in 1..Len(OutRows) : r > HeaderRows => ~RowHasData(OutRows[r])

C17_Witness ==
    /\ Saved
    /\ ~files_ok.mapping
    /\ NumProducts = 2
    /\ input_df[1] = Product("Widget", "EAN1", None, None)
    /\ tmpl.header_rows = 2
    /\ Len(tmpl.data) = 2
    /\ Len(OutRows) = 2
    /\ ret = get_output_file_path(platform)

\* the attributes, by position in the mapping table, that resolved a value
\* for address a when product i was transformed
ResolvedFor(i, a) ==
    {k \in 1..Len(mapping) :
        /\ platform \in DOMAIN mapping[k].columns
        /\ mapping[k].columns[platform] = a
        /\ glog.vals[i][k] /= None}

\* C19: for every product and every destination address of the platform,
\* transform_product returns for the address the value of the last
\* attribute in mapping-table order among those that resolved a value for
\* it; attributes that resolved no value change nothing, and an address no
\* attribute resolved a value for is not in the result.
C19_LastResolvedWins ==
    \A i \in 1..Len(glog.tps) : \A k \in 1..Len(mapping) :
        platform \in DOMAIN mapping[k].columns
        => LET a == mapping[k].columns[platform]
               K == ResolvedFor(i, a)
           IN IF K = {} THEN ~DictHas(glog.tps[i], a)
              ELSE /\ DictHas(glog.tps[i], a)
                   /\ DictGet(glog.tps[i], a)
                         = glog.vals[i][CHOOSE x \in K : \A y \in K : y <= x]

C19_Witness ==
    /\ Len(glog.tps) >= 1
    /\ platform = "castorama_fr"
    /\ mapping = <<BrandRow, ShopSkuRow>>
    /\ glog.vals[1] = <<"Acme", "SKU0">>
    /\ glog.tps[1] = << <<ColB, "SKU0">> >>

\* C19, the second case: a later attribute without a value erases nothing
C19_WitnessKept ==
    /\ Len(glog.tps) >= 1
    /\ platform = "castorama_fr"
    /\ mapping = <<BrandRow, WarrantyRow>>
    /\ glog.vals[1] = <<"Acme", None>>
    /\ glog.tps[1] = << <<ColB, "Acme">> >>

\* the value product_row holds under the mapped name itself
OwnValue(product_row, attribute) ==
    IF attribute \in DOMAIN product_row THEN product_row[attribute] ELSE None

\* C20: when desciption_fr is mapped with source input_file and the product
\* holds a value under desciption_fr itself, that value is what the product
\* has for the attribute's destination (no other attribute and no ean being
\* written to that address); description_fr supplies the value only when
\* desciption_fr itself is empty.
C20_Original ==
    \A i \in 1..Len(glog.cvs) :
        (/\ MappingHas(mapping, "desciption_fr")
         /\ platform \in DOMAIN MappingGet(mapping, "desciption_fr").columns
         /\ MappingGet(mapping, "desciption_fr").data_source = "input_file")
        => LET a == MappingGet(mapping, "desciption_fr").columns[platform]
               own == OwnValue(input_df[i], "desciption_fr")
               alt == OwnValue(input_df[i], "description_fr")
               alone == /\ \A k \in 1..Len(mapping) :
                             (/\ platform \in DOMAIN mapping[k].columns
                              /\ mapping[k].columns[platform] = a)
                             => mapping[k].attribute = "desciption_fr"
           IN alone
              => /\ own /= None
                    => /\ DictHas(glog.cvs[i], a)
                       /\ DictGet(glog.cvs[i], a) = own
                 /\ (own = None /\ alt /= None)
                    => /\ DictHas(glog.cvs[i], a)
                       /\ DictGet(glog.cvs[i], a) = alt

\* the destination addresses the mapping table holds for platform p
DestinationsOf(m, p) ==
    {m[k].columns[p] : k \in {x \in 1..Len(m) : p \in DOMAIN m[x].columns}}

\* the addresses a transform_product result holds, and whether it is a
\* mapping (no address twice)
Addresses(result) == {result[j][1] : j \in 1..Len(result)}
IsDict(result) ==
    \A j \in 1..Len(result) : \A l \in 1..Len(result) :
        result[j][1] = result[l][1] => j = l

\* C21: for every product transformed and every platform, configured or not,
\* transform_product returns a mapping whose addresses are all destination
\* addresses of the platform in the mapping table; an attribute without a
\* destination for the platform is passed over, and a platform that no
\* attribute has a destination for yields the empty mapping.
C21_OnlyPlatformDestinations ==
    \A i \in 1..Len(glog.tps) :
        /\ IsDict(glog.tps[i])
        /\ Addresses(glog.tps[i]) \subseteq DestinationsOf(mapping, platform)
        /\ \A k \in 1..Len(mapping) :
              platform \notin DOMAIN mapping[k].columns
              => glog.vals[i][k] = "skip"
        /\ DestinationsOf(mapping, platform) = {} => glog.tps[i] = <<>>
        /\ \A q \in RunPlatforms :
              LET result == transform_product(input_df[i], q, mapping,
                                              attributes)
              IN /\ IsDict(result)
                 /\ Addresses(result) \subseteq DestinationsOf(mapping, q)
                 /\ DestinationsOf(mapping, q) = {} => result = <<>>

\* a product with a title, transformed for a platform the only attribute of
\* the table has no destination for
C21_Witness ==
    /\ Len(glog.tps) >= 1
    /\ platform = "leroy_merlin"
    /\ mapping = <<TitleRow>>
    /\ OwnValue(input_df[1], "title") = "Widget"
    /\ glog.vals[1] = <<"skip">>
    /\ glog.tps[1] = <<>>
    /\ transform_product(input_df[1], "castorama_fr", mapping, attributes)
          = << <<ColC, "Widget">> >>
    /\ transform_product(input_df[1], "maxeda_be", mapping, attributes) = <<>>

\* the other spelling of the two description names, None for any other name
OtherSpelling(attribute) ==
    IF attribute = "desciption_fr" THEN "description_fr"
    ELSE IF attribute = "description_fr" THEN "desciption_fr"
    ELSE None

\* attribute k is the only one of the table with its destination for the
\* platform
AloneAtDestination(k) ==
    \A l \in 1..Len(mapping) :
        (/\ platform \in DOMAIN mapping[l].columns
         /\ mapping[l].columns[platform] = mapping[k].columns[platform])
        => l = k

C22_WitnessOwn ==
    /\ Len(glog.tps) >= 1
    /\ platform = "castorama_fr"
    /\ mapping = <<TitleRow>>
    /\ glog.vals[1] = <<"Widget">>
    /\ glog.tps[1] = << <<ColC, "Widget">> >>

\* the sheet the products of the run in progress, or of the run just saved,
\* are on
RunSheet == IF pc = "rows" THEN ws ELSE OutRows

\* C23: the values a product gets, and the cells of its row, are those that
\* the product's own record yields with the platform, the mapping table and
\* the value store, whatever the other products of the catalog are; two
\* products with the same record get the same values and the same cells.
C23_OwnRecordOnly ==
    (pc = "rows" \/ Saved) =>
        \A i \in 1..Len(glog.cvs) :
            LET own == product_column_values(input_df[i], platform, mapping,
                                             attributes)
            IN /\ glog.cvs[i] = own
               /\ \A c \in CheckCols :
                     CellValue(RunSheet, glog.row_of[i], c) = ExpectedCell(own, c)
               /\ \A j \in 1..Len(glog.cvs) :
                     input_df[j] = input_df[i]
                     => /\ glog.cvs[j] = glog.cvs[i]
                        /\ \A c \in CheckCols :
                              CellValue(RunSheet, glog.row_of[j], c)
                                 = CellValue(RunSheet, glog.row_of[i], c)

\* a product with values followed by one without any: the second row is
\* blank although the first was written
C23_Witness ==
    /\ Saved
    /\ NumProducts = 2
    /\ Len(glog.cvs) = 2
    /\ glog.cvs[1] /= <<>>
    /\ glog.cvs[2] = <<>>
    /\ RowHasData(OutRows[glog.row_of[1]])
    /\ \A c \in CheckCols : CellValue(OutRows, glog.row_of[2], c) = None

\* the same record twice in one catalog
C23_WitnessTwins ==
    /\ Saved
    /\ NumProducts = 2
    /\ Len(glog.cvs) = 2
    /\ input_df[1] = input_df[2]
    /\ glog.cvs[1] /= <<>>
    /\ glog.cvs[2] = glog.cvs[1]

\* the reference template files as they are before the first run
TemplateFiles ==
    [p \in RunPlatforms |->
        IF p \in PLATFORMS THEN File(TemplateRows(p, tmpl)) ELSE NoFile]

\* C28: the reference template files are never written: at every point of
\* every run, and after any number of runs, saved or given up, each
\* platform's template file holds what it held before the first run.
C28_TemplateNeverWritten == ref = TemplateFiles

\* after the second saved run of a platform whose artifact differs from its
\* template
C28_Witness ==
    /\ Saved
    /\ glog.nsaved[platform] = 2
    /\ NumProducts >= 1
    /\ Len(glog.cvs[1]) > 0
    /\ OutRows /= ref[platform].rows
    /\ ref[platform] = File(TemplateRows(platform, tmpl))

\* after a run that was given up
C28_WitnessFailed ==
    /\ RunEnded
    /\ ret = None
    /\ platform \in PLATFORMS
    /\ ref[platform] = File(TemplateRows(platform, tmpl))

\* ================================================================ translator.py
\* Column names are strings, modelled as sequences of characters.
MaxTrRows == 2

lower_char(c) ==
    IF IsUpperChar(c) THEN LowerLetters[AlphaPos[c]] ELSE c
lower(s) == [i \in 1..Len(s) |-> lower_char(s[i])]
startswith(s, t) == Len(t) <= Len(s) /\ SubSeq(s, 1, Len(t)) = t
endswith(s, t) == Len(t) <= Len(s) /\ SubSeq(s, Len(s) - Len(t) + 1, Len(s)) = t

\* s.replace(t, '')
RECURSIVE remove_all(_, _)
remove_all(s, t) ==
    IF Len(s) = 0 THEN <<>>
    ELSE IF startswith(s, t)
    THEN remove_all(SubSeq(s, Len(t) + 1, Len(s)), t)
    ELSE <<s[1]>> \o remove_all(Tail(s), t)

P_title == <<"t", "i", "t", "l", "e">>
P_description == <<"d", "e", "s", "c", "r", "i", "p", "t", "i", "o", "n">>
P_desciption == <<"d", "e", "s", "c", "i", "p", "t", "i", "o", "n">>
P_short_description == <<"s", "h", "o", "r", "t", "_", "d", "e", "s", "c", "r", "i", "p", "t", "i", "o", "n">>
P_long_description == <<"l", "o", "n", "g", "_", "d", "e", "s", "c", "r", "i", "p", "t", "i", "o", "n">>
K_sku == <<"s", "k", "u">>
K_title_en == <<"t", "i", "t", "l", "e", "_", "e", "n">>
K_title_fr == <<"t", "i", "t", "l", "e", "_", "f", "r">>
K_title_it == <<"t", "i", "t", "l", "e", "_", "i", "t">>
K_Title_FR == <<"T", "i", "t", "l", "e", "_", "F", "R">>
K_description_fr == <<"d", "e", "s", "c", "r", "i", "p", "t", "i", "o", "n", "_", "f", "r">>
K_description_en == <<"d", "e", "s", "c", "r", "i", "p", "t", "i", "o", "n", "_", "e", "n">>
K_price == <<"p", "r", "i", "c", "e">>

\* translator.py:23-32
LANGUAGE_CODES ==
    << <<<<"e", "n">>, "EN">>,
       <<<<"f", "r">>, "FR">>,
       <<<<"i", "t">>, "IT">>,
       <<<<"e", "s">>, "ES">>,
       <<<<"d", "e">>, "DE">>,
       <<<<"n", "l">>, "NL">>,
       <<<<"p", "l">>, "PL">>,
       <<<<"p", "t">>, "PT">> >>

\* translator.py:106
prefixes == <<P_title, P_description, P_desciption, P_short_description,
              P_long_description>>

\* translator.py:108-120, the inner loop over the prefixes for one column
RECURSIVE add_column(_, _, _)
add_column(fields, column, i) ==
    IF i > Len(prefixes) THEN fields
    ELSE LET prefix == prefixes[i]
             col_lower == lower(column)
         IN IF /\ startswith(col_lower, prefix \o <<"_">>)
               /\ DictHas(LANGUAGE_CODES, remove_all(col_lower, prefix \o <<"_">>))
            THEN add_column(
                   DictPut(fields, prefix,
                           IF DictHas(fields, prefix)
                           THEN Append(DictGet(fields, prefix), column)
                           ELSE <<column>>),
                   column, i + 1)
            ELSE add_column(fields, column, i + 1)

\* translator.py:92-122
RECURSIVE identify_loop(_, _, _)
identify_loop(fields, columns, j) ==
    IF j > Len(columns) THEN fields
    ELSE identify_loop(add_column(fields, columns[j], 1), columns, j + 1)
identify_translatable_fields(columns) == identify_loop(<<>>, columns, 1)

\* translator.py:168-172: the first column of the group that ends with _en,
\* <<>> when there is none
find_en_column(language_columns) ==
    LET E == {i \in 1..Len(language_columns) :
                 endswith(lower(language_columns[i]), <<"_", "e", "n">>)}
    IN IF E = {} THEN <<>>
       ELSE language_columns[CHOOSE i \in E : \A q \in E : i <= q]

\* cell values: None (NaN), a blank string, or text; str(v).strip()
Blank == " "
strip_value(v) ==
    IF v = Blank THEN ""
    ELSE IF v = " Hello" THEN "Hello"
    ELSE v

en_is_empty_nan_only(v) == ~notna(v)
\* translator.py:182
en_is_empty(v) == ~notna(v) \/ strip_value(v) = ""

is_filled_inverted(v) == notna(v) /\ strip_value(v) = ""
\* translator.py:195
is_filled(v) == notna(v) /\ strip_value(v) /= ""

\* what the DeepL service answers on success
deepl(text, target_lang) ==
    IF text = "Hello" /\ target_lang = "FR" THEN "Bonjour"
    ELSE IF text = "Hello" /\ target_lang = "IT" THEN "Ciao"
    ELSE IF text = "Bye" /\ target_lang = "FR" THEN "Au revoir"
    ELSE IF text = "Bye" /\ target_lang = "IT" THEN "Addio"
    ELSE "Translated"

\* translator.py:50-89: the translation, None on any failure; the service
\* may also answer with an empty text
TranslateOutcomes(text, target_lang) == {deepl(text, target_lang), None, ""}

ColPos(columns, name) == CHOOSE j \in 1..Len(columns) : columns[j] = name

\* ------------------------------------------------------------ input sets
ColumnLists == { <<K_sku, K_title_en, K_title_fr, K_title_it>>,
                 <<K_title_fr, K_description_en, K_description_fr>>,
                 <<K_title_en, K_Title_FR>>,
                 <<K_price>> }

\* rows of a catalog with the given columns
RowChoices(columns) ==
    IF columns = <<K_sku, K_title_en, K_title_fr, K_title_it>>
    THEN { <<"S1", "Hello", None, "Ciao0">>,
           <<"S1", "Hello", None, None>>,
           <<"S1", " Hello", Blank, None>>,
           <<"S1", "Hello", "Salut", "Ciao0">>,
           <<"S1", Blank, None, None>>,
           <<"S1", None, "Salut", None>>,
           <<"S1", None, None, "Ciao0">> }
    ELSE IF columns = <<K_title_fr, K_description_en, K_description_fr>>
    THEN { <<None, "Hello", None>>,
           <<"Salut", "Bye", "Desc">>,
           <<None, Blank, None>>,
           <<Blank, " Hello", None>> }
    ELSE IF columns = <<K_title_en, K_Title_FR>>
    THEN { <<"Hello", None>>,
           <<"Bye", "Salut">>,
           <<None, None>>,
           <<" Hello", Blank>> }
    ELSE { <<"S1">> }

TrInit(columns, rows, exists) ==
    [pc |-> "start", columns |-> columns,
     file |-> [exists |-> exists, rows |-> rows],
     df0 |-> rows, df |-> <<>>, snap |-> <<>>, fields |-> <<>>,
     g |-> 1, r |-> 1, c |-> 1, en_column |-> <<>>, en_text |-> "",
     made |-> 0, skipped |-> 0, calls |-> <<>>, sleeps |-> 0, saves |-> 0,
     ret |-> None]

genIdle ==
    /\ mapping = <<>>
    /\ attributes = [same |-> EmptyDict, platform_specific |-> EmptyDict]
    /\ input_df = <<>>
    /\ files_ok = [mapping |-> TRUE, input |-> TRUE]
    /\ tmpl = [header_rows |-> 2, data |-> <<>>]
    /\ ref = [p \in RunPlatforms |-> NoFile]
    /\ out = [p \in RunPlatforms |-> NoFile]
    /\ pc = "off"
    /\ platform = "castorama_fr"
    /\ ws = <<>>
    /\ next_row = NextRowStart
    /\ idx = 1
    /\ ret = None
    /\ runs = 0
    /\ glog = NoLog

InitTr ==
    /\ genIdle
    /\ col = colIdle
    /\ auxIdle
    /\ \E columns \in ColumnLists :
         \E rows \in SeqsUpTo(RowChoices(columns), MaxTrRows) :
           \E exists \in BOOLEAN :
             tr = TrInit(columns, rows, exists)

\* ------------------------------------------------- translate_input_file
\* translator.py:142-159
TrStart ==
    /\ tr.pc = "start"
    /\ IF ~tr.file.exists
       THEN tr' = [tr EXCEPT !.pc = "done", !.ret = "False"]
       ELSE LET fields == identify_translatable_fields(tr.columns)
            IN IF Len(fields) = 0
               THEN tr' = [tr EXCEPT !.pc = "done", !.ret = "True",
                                     !.df = tr.file.rows]
               ELSE tr' = [tr EXCEPT !.pc = "group", !.df = tr.file.rows,
                                     !.fields = fields, !.g = 1]
    /\ UNCHANGED <<genVars, col, la, dl, mt>>

\* TrGroup that ends the loop over the groups at the first group without an
\* English column
TrGroup_stop_without_en ==
    /\ tr.pc = "group"
    /\ IF tr.g > Len(tr.fields)
       THEN tr' = [tr EXCEPT !.pc = "save"]
       ELSE LET en == find_en_column(tr.fields[tr.g][2])
            IN IF Len(en) = 0
               THEN tr' = [tr EXCEPT !.pc = "save"]
               ELSE tr' = [tr EXCEPT !.pc = "row", !.en_column = en,
                                     !.snap = tr.df, !.r = 1]
    /\ UNCHANGED <<genVars, col, la, dl, mt>>

\* translator.py:166-179: next group, its English column, the row iterator
TrGroup ==
    /\ tr.pc = "group"
    /\ IF tr.g > Len(tr.fields)
       THEN tr' = [tr EXCEPT !.pc = "save"]
       ELSE LET en == find_en_column(tr.fields[tr.g][2])
            IN IF Len(en) = 0
               THEN tr' = [tr EXCEPT !.g = @ + 1]
               ELSE tr' = [tr EXCEPT !.pc = "row", !.en_column = en,
                                     !.snap = tr.df, !.r = 1]
    /\ UNCHANGED <<genVars, col, la, dl, mt>>

\* TrRow that writes the stripped English text back into the frame
TrRow_write_back ==
    /\ tr.pc = "row"
    /\ IF tr.r > Len(tr.snap)
       THEN tr' = [tr EXCEPT !.pc = "group", !.g = @ + 1]
       ELSE LET en_text == tr.snap[tr.r][ColPos(tr.columns, tr.en_column)]
            IN IF en_is_empty(en_text)
               THEN tr' = [tr EXCEPT !.r = @ + 1]
               ELSE tr' = [tr EXCEPT !.pc = "cell", !.c = 1,
                                     !.en_text = strip_value(en_text),
                                     !.df = [@ EXCEPT
                                        ![tr.r][ColPos(tr.columns, tr.en_column)]
                                            = strip_value(en_text)]]
    /\ UNCHANGED <<genVars, col, la, dl, mt>>

\* translator.py:179-188: next row of the group, its English text
TrRow ==
    /\ tr.pc = "row"
    /\ IF tr.r > Len(tr.snap)
       THEN tr' = [tr EXCEPT !.pc = "group", !.g = @ + 1]
       ELSE LET en_text == tr.snap[tr.r][ColPos(tr.columns, tr.en_column)]
            IN IF en_is_empty(en_text)
               THEN tr' = [tr EXCEPT !.r = @ + 1]
               ELSE tr' = [tr EXCEPT !.pc = "cell", !.c = 1,
                                     !.en_text = strip_value(en_text)]
    /\ UNCHANGED <<genVars, col, la, dl, mt>>

\* TrCell that gives up on the rest of the row when a translation fails
TrCell_abort_row ==
    /\ tr.pc = "cell"
    /\ LET language_columns == tr.fields[tr.g][2]
           base_field == tr.fields[tr.g][1]
       IN IF tr.c > Len(language_columns)
          THEN tr' = [tr EXCEPT !.pc = "row", !.r = @ + 1]
          ELSE LET lang_col == language_columns[tr.c]
                   pos == ColPos(tr.columns, lang_col)
                   current_value == tr.snap[tr.r][pos]
                   col_lower == lower(lang_col)
                   lang_code == remove_all(col_lower, base_field \o <<"_">>)
               IN IF lang_col = tr.en_column
                  THEN tr' = [tr EXCEPT !.c = @ + 1]
                  ELSE IF is_filled(current_value)
                  THEN tr' = [tr EXCEPT !.c = @ + 1, !.skipped = @ + 1]
                  ELSE IF \/ ~startswith(col_lower, base_field \o <<"_">>)
                          \/ ~DictHas(LANGUAGE_CODES, lang_code)
                  THEN tr' = [tr EXCEPT !.c = @ + 1]
                  ELSE LET target_lang == DictGet(LANGUAGE_CODES, lang_code)
                       IN \E translated \in TranslateOutcomes(tr.en_text, target_lang) :
                            tr' = [tr EXCEPT
                              !.c = IF translated \in {None, ""}
                                    THEN Len(language_columns) + 1 ELSE @ + 1,
                              !.calls = Append(@, [g |-> tr.g, r |-> tr.r,
                                                   column |-> lang_col,
                                                   text |-> tr.en_text,
                                                   target_lang |-> target_lang,
                                                   ok |-> translated \notin {None, ""},
                                                   slept |-> tr.sleeps]),
                              !.df = IF translated \notin {None, ""}
                                     THEN [@ EXCEPT ![tr.r][pos] = translated]
                                     ELSE @,
                              !.made = IF translated \notin {None, ""}
                                       THEN @ + 1 ELSE @,
                              !.sleeps = @ + 1]
    /\ UNCHANGED <<genVars, col, la, dl, mt>>

\* TrCell that counts a translation as made also when the call failed
TrCell_count_failed ==
    /\ tr.pc = "cell"
    /\ LET language_columns == tr.fields[tr.g][2]
           base_field == tr.fields[tr.g][1]
       IN IF tr.c > Len(language_columns)
          THEN tr' = [tr EXCEPT !.pc = "row", !.r = @ + 1]
          ELSE LET lang_col == language_columns[tr.c]
                   pos == ColPos(tr.columns, lang_col)
                   current_value == tr.snap[tr.r][pos]
                   col_lower == lower(lang_col)
                   lang_code == remove_all(col_lower, base_field \o <<"_">>)
               IN IF lang_col = tr.en_column
                  THEN tr' = [tr EXCEPT !.c = @ + 1]
                  ELSE IF is_filled(current_value)
                  THEN tr' = [tr EXCEPT !.c = @ + 1, !.skipped = @ + 1]
                  ELSE IF \/ ~startswith(col_lower, base_field \o <<"_">>)
                          \/ ~DictHas(LANGUAGE_CODES, lang_code)
                  THEN tr' = [tr EXCEPT !.c = @ + 1]
                  ELSE LET target_lang == DictGet(LANGUAGE_CODES, lang_code)
                       IN \E translated \in TranslateOutcomes(tr.en_text, target_lang) :
                            tr' = [tr EXCEPT
                              !.c = @ + 1,
                              !.calls = Append(@, [g |-> tr.g, r |-> tr.r,
                                                   column |-> lang_col,
                                                   text |-> tr.en_text,
                                                   target_lang |-> target_lang,
                                                   ok |-> translated \notin {None, ""},
                                                   slept |-> tr.sleeps]),
                              !.df = IF translated \notin {None, ""}
                                     THEN [@ EXCEPT ![tr.r][pos] = translated]
                                     ELSE @,
                              !.made = @ + 1,
                              !.sleeps = @ + 1]
    /\ UNCHANGED <<genVars, col, la, dl, mt>>

\* TrCell that waits only after a translation that succeeded
TrCell_sleep_on_success ==
    /\ tr.pc = "cell"
    /\ LET language_columns == tr.fields[tr.g][2]
           base_field == tr.fields[tr.g][1]
       IN IF tr.c > Len(language_columns)
          THEN tr' = [tr EXCEPT !.pc = "row", !.r = @ + 1]
          ELSE LET lang_col == language_columns[tr.c]
                   pos == ColPos(tr.columns, lang_col)
                   current_value == tr.snap[tr.r][pos]
                   col_lower == lower(lang_col)
                   lang_code == remove_all(col_lower, base_field \o <<"_">>)
               IN IF lang_col = tr.en_column
                  THEN tr' = [tr EXCEPT !.c = @ + 1]
                  ELSE IF is_filled(current_value)
                  THEN tr' = [tr EXCEPT !.c = @ + 1, !.skipped = @ + 1]
                  ELSE IF \/ ~startswith(col_lower, base_field \o <<"_">>)
                          \/ ~DictHas(LANGUAGE_CODES, lang_code)
                  THEN tr' = [tr EXCEPT !.c = @ + 1]
                  ELSE LET target_lang == DictGet(LANGUAGE_CODES, lang_code)
                       IN \E translated \in TranslateOutcomes(tr.en_text, target_lang) :
                            tr' = [tr EXCEPT
                              !.c = @ + 1,
                              !.calls = Append(@, [g |-> tr.g, r |-> tr.r,
                                                   column |-> lang_col,
                                                   text |-> tr.en_text,
                                                   target_lang |-> target_lang,
                                                   ok |-> translated \notin {None, ""},
                                                   slept |-> tr.sleeps]),
                              !.df = IF translated \notin {None, ""}
                                     THEN [@ EXCEPT ![tr.r][pos] = translated]
                                     ELSE @,
                              !.made = IF translated \notin {None, ""}
                                       THEN @ + 1 ELSE @,
                              !.sleeps = IF translated \notin {None, ""}
                                         THEN @ + 1 ELSE @]
    /\ UNCHANGED <<genVars, col, la, dl, mt>>

\* translator.py:188-222: next language column of the row
TrCell ==
    /\ tr.pc = "cell"
    /\ LET language_columns == tr.fields[tr.g][2]
           base_field == tr.fields[tr.g][1]
       IN IF tr.c > Len(language_columns)
          THEN tr' = [tr EXCEPT !.pc = "row", !.r = @ + 1]
          ELSE LET lang_col == language_columns[tr.c]
                   pos == ColPos(tr.columns, lang_col)
                   current_value == tr.snap[tr.r][pos]
                   col_lower == lower(lang_col)
                   lang_code == remove_all(col_lower, base_field \o <<"_">>)
               IN IF lang_col = tr.en_column
                  THEN tr' = [tr EXCEPT !.c = @ + 1]
                  ELSE IF is_filled(current_value)
                  THEN tr' = [tr EXCEPT !.c = @ + 1, !.skipped = @ + 1]
                  ELSE IF \/ ~startswith(col_lower, base_field \o <<"_">>)
                          \/ ~DictHas(LANGUAGE_CODES, lang_code)
                  THEN tr' = [tr EXCEPT !.c = @ + 1]
                  ELSE LET target_lang == DictGet(LANGUAGE_CODES, lang_code)
                       IN \E translated \in TranslateOutcomes(tr.en_text, target_lang) :
                            tr' = [tr EXCEPT
                              !.c = @ + 1,
                              !.calls = Append(@, [g |-> tr.g, r |-> tr.r,
                                                   column |-> lang_col,
                                                   text |-> tr.en_text,
                                                   target_lang |-> target_lang,
                                                   ok |-> translated \notin {None, ""},
                                                   slept |-> tr.sleeps]),
                              !.df = IF translated \notin {None, ""}
                                     THEN [@ EXCEPT ![tr.r][pos] = translated]
                                     ELSE @,
                              !.made = IF translated \notin {None, ""}
                                       THEN @ + 1 ELSE @,
                              !.sleeps = @ + 1]
    /\ UNCHANGED <<genVars, col, la, dl, mt>>

\* translator.py:224-228: write the catalog back, return True
TrSave ==
    /\ tr.pc = "save"
    /\ tr' = [tr EXCEPT !.pc = "done", !.ret = "True",
                        !.file = [exists |-> TRUE, rows |-> tr.df],
                        !.saves = @ + 1]
    /\ UNCHANGED <<genVars, col, la, dl, mt>>

NextTr == TrStart \/ TrGroup \/ TrRow \/ TrCell \/ TrSave

SpecTr == InitTr /\ [][NextTr]_vars

\* the groups of the catalog's columns
GroupsOf(columns) == identify_translatable_fields(columns)
\* column position j is a target column of group g of fields, and the group
\* has an English column
IsTargetIn(fields, g, j) ==
    LET en == find_en_column(fields[g][2])
    IN /\ Len(en) > 0
       /\ \E i \in 1..Len(fields[g][2]) : fields[g][2][i] = tr.columns[j]
       /\ tr.columns[j] /= en
NonEmptyCell(v) == v /= None /\ v /= Blank
\* the catalog as the run has it now: the frame while running, the file at
\* the end
TrRows == IF tr.pc = "done" THEN tr.file.rows
          ELSE IF tr.pc = "start" THEN tr.df0 ELSE tr.df

\* C2: a target-language cell that was non-empty before the run holds the
\* same value during and after the run; only empty target cells change.
C2_NoOverwrite ==
    tr.pc /= "off" =>
      LET fields == GroupsOf(tr.columns)
          targets == {j \in 1..Len(tr.columns) :
                         \E g \in 1..Len(fields) : IsTargetIn(fields, g, j)}
          rows == TrRows
      IN \A r \in 1..Len(tr.df0) : \A j \in targets :
           /\ NonEmptyCell(tr.df0[r][j]) => rows[r][j] = tr.df0[r][j]
           /\ rows[r][j] /= tr.df0[r][j] => ~NonEmptyCell(tr.df0[r][j])

C2_Witness ==
    /\ tr.pc = "done"
    /\ tr.columns = <<K_sku, K_title_en, K_title_fr, K_title_it>>
    /\ Len(tr.df0) >= 1
    /\ tr.df0[1] = <<"S1", "Hello", None, "Ciao0">>
    /\ tr.file.rows[1] = <<"S1", "Hello", "Bonjour", "Ciao0">>
    /\ tr.made >= 1
    /\ tr.skipped >= 1

\* C3: for a group and a row whose English cell is empty (NaN or blank) no
\* translation call is made, and every target cell of the group in that row
\* keeps its value.
C3_EmptySourceSkipped ==
    tr.pc /= "off" =>
      LET fields == GroupsOf(tr.columns)
          rows == TrRows
      IN \A g \in 1..Len(fields) :
           LET en == find_en_column(fields[g][2])
               targets == {j \in 1..Len(tr.columns) : IsTargetIn(fields, g, j)}
           IN Len(en) > 0 =>
                \A r \in 1..Len(tr.df0) :
                  ~NonEmptyCell(tr.df0[r][ColPos(tr.columns, en)])
                  => /\ \A n \in 1..Len(tr.calls) :
                           ~(tr.calls[n].g = g /\ tr.calls[n].r = r)
                     /\ \A j \in targets : rows[r][j] = tr.df0[r][j]

C3_Witness ==
    /\ tr.pc = "done"
    /\ tr.ret = "True"
    /\ tr.columns = <<K_sku, K_title_en, K_title_fr, K_title_it>>
    /\ Len(tr.df0) = 2
    /\ tr.df0[1] = <<"S1", Blank, None, None>>
    /\ tr.df0[2] = <<"S1", "Hello", None, None>>
    /\ tr.file.rows[1] = tr.df0[1]
    /\ tr.file.rows[2] = <<"S1", "Hello", "Bonjour", "Ciao">>
    /\ Len(tr.calls) = 2

\* the cells the run has to translate, as <<group, row, column>>: target
\* columns that are not filled, in rows whose English cell is not empty
ExpectedTargets(fields) ==
    {t \in (1..Len(fields)) \X (1..Len(tr.df0)) \X (1..Len(tr.columns)) :
        /\ IsTargetIn(fields, t[1], t[3])
        /\ ~en_is_empty(tr.df0[t[2]][ColPos(tr.columns,
                                            find_en_column(fields[t[1]][2]))])
        /\ ~is_filled(tr.df0[t[2]][t[3]])}

\* C14: when a translation call failed, the run still returns True, the
\* cell of every failed call is as it was (empty), and the calls made are
\* exactly one for every empty target cell of every row with an English
\* text, in every group, each successful one filling its cell: what follows
\* a failed call is processed as after a successful one.
C14_FailureContinues ==
    (tr.pc = "done" /\ \E n \in 1..Len(tr.calls) : ~tr.calls[n].ok)
    => LET fields == GroupsOf(tr.columns)
           expected == ExpectedTargets(fields)
       IN /\ tr.ret = "True"
          /\ tr.saves = 1
          /\ {<<tr.calls[n].g, tr.calls[n].r,
                ColPos(tr.columns, tr.calls[n].column)>> :
                 n \in 1..Len(tr.calls)} = expected
          /\ Len(tr.calls) = Cardinality(expected)
          /\ \A n \in 1..Len(tr.calls) :
                LET r == tr.calls[n].r
                    j == ColPos(tr.columns, tr.calls[n].column)
                IN IF tr.calls[n].ok
                   THEN tr.file.rows[r][j]
                           = deepl(tr.calls[n].text, tr.calls[n].target_lang)
                   ELSE /\ tr.file.rows[r][j] = tr.df0[r][j]
                        /\ ~NonEmptyCell(tr.file.rows[r][j])

C14_Witness ==
    /\ tr.pc = "done"
    /\ tr.ret = "True"
    /\ tr.columns = <<K_sku, K_title_en, K_title_fr, K_title_it>>
    /\ tr.df0 = << <<"S1", "Hello", None, None>>,
                   <<"S1", "Hello", None, "Ciao0">> >>
    /\ Len(tr.calls) = 3
    /\ ~tr.calls[1].ok
    /\ tr.file.rows = << <<"S1", "Hello", None, "Ciao">>,
                         <<"S1", "Hello", "Bonjour", "Ciao0">> >>

\* a Python tuple of two counts as a return value
CountsValue(made, skipped) == ToString(<<made, skipped>>)

\* the cells the run filled, and the filled target cells it met in rows with
\* an English text
FilledCells ==
    {c \in (1..Len(tr.df0)) \X (1..Len(tr.columns)) :
        tr.file.rows[c[1]][c[2]] /= tr.df0[c[1]][c[2]]}
MetFilledTargets(fields) ==
    {t \in (1..Len(fields)) \X (1..Len(tr.df0)) \X (1..Len(tr.columns)) :
        /\ IsTargetIn(fields, t[1], t[3])
        /\ ~en_is_empty(tr.df0[t[2]][ColPos(tr.columns,
                                            find_en_column(fields[t[1]][2]))])
        /\ is_filled(tr.df0[t[2]][t[3]])}

\* C18 as stated: a run on an existing file saves the catalog exactly once
\* and returns the counts (made, skipped).
C18_Original ==
    (tr.pc = "done" /\ tr.ret /= "False")
    => /\ tr.saves = 1
       /\ tr.ret = CountsValue(tr.made, tr.skipped)
       /\ tr.made = Cardinality(FilledCells)
       /\ tr.skipped = Cardinality(MetFilledTargets(GroupsOf(tr.columns)))

\* C18 amended: a run on an existing file returns True; it saves the
\* catalog back to the file exactly once, after all groups and rows, when
\* the catalog has a translatable group and not at all when it has none;
\* the counts it keeps (and logs) are made = the number of cells it filled
\* and skipped = the number of filled target cells it met in rows with an
\* English text.
C18_SavedOnceWithCounts ==
    /\ tr.pc /= "off"
       => /\ tr.saves <= 1
          /\ tr.saves = 1 => tr.pc = "done"
    /\ (tr.pc = "done" /\ tr.ret /= "False")
       => LET fields == GroupsOf(tr.columns)
          IN /\ tr.ret = "True"
             /\ tr.saves = (IF Len(fields) = 0 THEN 0 ELSE 1)
             /\ tr.file.rows = tr.df
             /\ tr.made = Cardinality(FilledCells)
             /\ tr.skipped = Cardinality(MetFilledTargets(fields))

C18_Witness ==
    /\ tr.pc = "done"
    /\ tr.ret = "True"
    /\ tr.saves = 1
    /\ tr.columns = <<K_sku, K_title_en, K_title_fr, K_title_it>>
    /\ Len(tr.df0) = 2
    /\ Len(tr.calls) = 3
    /\ tr.made = 2
    /\ tr.skipped = 1
    /\ Cardinality(FilledCells) = 2

\* the groups of fields that have no English column
GroupsWithoutEn(fields) ==
    {g \in 1..Len(fields) : Len(find_en_column(fields[g][2])) = 0}

\* column position j belongs to group g of fields
InGroup(fields, g, j) ==
    \E i \in 1..Len(fields[g][2]) : fields[g][2][i] = tr.columns[j]

\* C24: a group without an English column is passed over: no call is made
\* for it and every cell of its columns keeps its value, during and after
\* the run; and when the catalog has such a group, the run still makes
\* exactly one call for every empty target cell of every row with an
\* English text in the groups that do have an English column, filling the
\* cell when the call succeeds, and saves.
C24_GroupWithoutEnSkipped ==
    tr.pc /= "off" =>
      LET fields == GroupsOf(tr.columns)
          rows == TrRows
          expected == ExpectedTargets(fields)
      IN /\ \A g \in GroupsWithoutEn(fields) :
              /\ \A n \in 1..Len(tr.calls) : tr.calls[n].g /= g
              /\ \A r \in 1..Len(tr.df0) : \A j \in 1..Len(tr.columns) :
                    InGroup(fields, g, j) => rows[r][j] = tr.df0[r][j]
         /\ (tr.pc = "done" /\ tr.file.exists /\ GroupsWithoutEn(fields) /= {})
            => /\ tr.saves = 1
               /\ {<<tr.calls[n].g, tr.calls[n].r,
                     ColPos(tr.columns, tr.calls[n].column)>> :
                      n \in 1..Len(tr.calls)} = expected
               /\ \A n \in 1..Len(tr.calls) :
                     tr.calls[n].ok
                     => tr.file.rows[tr.calls[n].r]
                                    [ColPos(tr.columns, tr.calls[n].column)]
                           = deepl(tr.calls[n].text, tr.calls[n].target_lang)

\* title has only a French column, description has an English one: the
\* empty title_fr cell stays empty, description_fr is translated
C24_Witness ==
    /\ tr.pc = "done"
    /\ tr.columns = <<K_title_fr, K_description_en, K_description_fr>>
    /\ GroupsWithoutEn(GroupsOf(tr.columns)) = {1}
    /\ Len(tr.df0) >= 1
    /\ tr.df0[1] = <<None, "Hello", None>>
    /\ tr.file.rows[1] = <<None, "Hello", "Bonjour">>
    /\ Len(tr.calls) >= 1
    /\ tr.calls[1].g = 2

\* C25: every translation call, whether it succeeded or failed, is
\* followed by the inter-call delay before anything else happens: at any
\* point as many delays have been taken as calls were made, and when the
\* n-th call started, all n-1 calls before it had been followed by their
\* delay.
C25_DelayAfterEveryCall ==
    tr.pc /= "off" =>
      /\ tr.sleeps = Len(tr.calls)
      /\ \A n \in 1..Len(tr.calls) : tr.calls[n].slept = n - 1

\* a failed call followed by two more calls
C25_Witness ==
    /\ tr.pc = "done"
    /\ Len(tr.calls) = 3
    /\ ~tr.calls[1].ok
    /\ tr.calls[2].ok
    /\ tr.calls[2].slept = 1
    /\ tr.sleeps = 3

\* the column positions the run may write: the target columns of the groups
\* that have an English column
TargetPositions(fields) ==
    {j \in 1..Len(tr.columns) :
        \E g \in 1..Len(fields) : IsTargetIn(fields, g, j)}

\* C29: during and after the run every cell outside the target columns (the
\* English source columns, the columns of no group, the columns of a group
\* without an English column) holds the value it held before the run, in
\* every row; the number of rows and columns is unchanged; and a cell whose
\* value changed was an empty cell of a target column.
C29_OnlyEmptyTargetsChange ==
    tr.pc /= "off" =>
      LET fields == GroupsOf(tr.columns)
          targets == TargetPositions(fields)
          rows == TrRows
      IN /\ Len(rows) = Len(tr.df0)
         /\ \A r \in 1..Len(tr.df0) :
              /\ Len(rows[r]) = Len(tr.columns)
              /\ \A j \in 1..Len(tr.columns) :
                    /\ j \notin targets => rows[r][j] = tr.df0[r][j]
                    /\ rows[r][j] /= tr.df0[r][j]
                       => j \in targets /\ ~is_filled(tr.df0[r][j])

\* a row whose English text has a leading blank and whose targets are a
\* blank and a missing cell: both targets filled, sku and English text as
\* they were
C29_Witness ==
    /\ tr.pc = "done"
    /\ tr.columns = <<K_sku, K_title_en, K_title_fr, K_title_it>>
    /\ TargetPositions(GroupsOf(tr.columns)) = {3, 4}
    /\ Len(tr.df0) >= 1
    /\ tr.df0[1] = <<"S1", " Hello", Blank, None>>
    /\ tr.file.rows[1] = <<"S1", " Hello", "Bonjour", "Ciao">>

\* ================================================ column_letter_to_index
MaxAddrLen == 3
AddrLetters == {"A", "B", "Y", "Z"}
\* addresses as the mapping table gives them
ValidAddrs == UNION {[1..n -> AddrLetters] : n \in 1..MaxAddrLen}
\* the same column typed in lower case or with blanks around it
SloppyAddrs == { <<"b", "m">>, <<" ", "A", "z", " ">>, <<"a">> }
ColInputs == ValidAddrs \cup SloppyAddrs

ColInit(s) == [pc |-> "start", input |-> s, s |-> <<>>, i |-> 1,
               result |-> 0, ret |-> 0 - 1, lib |-> 0 - 1]

InitCol ==
    /\ genIdle
    /\ tr = trIdle
    /\ auxIdle
    /\ \E s \in ColInputs : col = ColInit(s)

\* transformer.py:242-243
ColStart ==
    /\ col.pc = "start"
    /\ col' = [col EXCEPT !.pc = "loop", !.s = strip(upper(col.input)),
                          !.result = 0, !.i = 1]
    /\ UNCHANGED <<genVars, tr, la, dl, mt>>

\* transformer.py:244-245
ColStep ==
    /\ col.pc = "loop"
    /\ col.i <= Len(col.s)
    /\ col' = [col EXCEPT !.result = letter_step(col.result, col.s[col.i]),
                          !.i = @ + 1]
    /\ UNCHANGED <<genVars, tr, la, dl, mt>>

\* transformer.py:246
ColReturn ==
    /\ col.pc = "loop"
    /\ col.i > Len(col.s)
    /\ col' = [col EXCEPT !.pc = "done", !.ret = col.result - 1]
    /\ UNCHANGED <<genVars, tr, la, dl, mt>>

\* transformer.py:326, the decoding generate_platform_file uses
ColFromString ==
    /\ col.pc = "done"
    /\ col.lib = 0 - 1
    /\ col' = [col EXCEPT !.lib = column_index_from_string(col.input)]
    /\ UNCHANGED <<genVars, tr, la, dl, mt>>

NextCol == ColStart \/ ColStep \/ ColReturn \/ ColFromString

SpecCol == InitCol /\ [][NextCol]_vars

\* the number a letter address denotes: base 26, digits A=1..Z=26, no zero
RECURSIVE Base26Value(_)
Base26Value(s) ==
    IF Len(s) = 0 THEN 0
    ELSE AlphaPos[s[Len(s)]] + 26 * Base26Value(SubSeq(s, 1, Len(s) - 1))

\* the letter address of a 1-based column number
RECURSIVE index_to_letters(_)
index_to_letters(n) ==
    IF n <= 0 THEN <<>>
    ELSE index_to_letters((n - 1) \div 26) \o <<Letters[((n - 1) % 26) + 1]>>

MaxSheetRows == 2

\* str.strip(), str.endswith() and str.replace(old, '') on strings
RECURSIVE str_lstrip(_)
str_lstrip(s) ==
    IF Len(s) > 0 /\ SubSeq(s, 1, 1) = " "
    THEN str_lstrip(SubSeq(s, 2, Len(s))) ELSE s
RECURSIVE str_rstrip(_)
str_rstrip(s) ==
    IF Len(s) > 0 /\ SubSeq(s, Len(s), Len(s)) = " "
    THEN str_rstrip(SubSeq(s, 1, Len(s) - 1)) ELSE s
str_strip(s) == str_rstrip(str_lstrip(s))
str_endswith(s, t) ==
    Len(s) >= Len(t) /\ SubSeq(s, Len(s) - Len(t) + 1, Len(s)) = t
RECURSIVE str_remove(_, _)
str_remove(s, old) ==
    IF Len(s) = 0 THEN s
    ELSE IF Len(s) >= Len(old) /\ SubSeq(s, 1, Len(old)) = old
    THEN str_remove(SubSeq(s, Len(old) + 1, Len(s)), old)
    ELSE SubSeq(s, 1, 1) \o str_remove(SubSeq(s, 2, Len(s)), old)

\* the store load_attributes starts from and gives back on failure
EmptyStore == [same |-> EmptyDict, platform_specific |-> EmptyDict]

\* transformer.py:84-87: one row of Same_Input_Attributes
same_row(same, row) ==
    LET attr_name == str_strip(row["attribute_name"])
        value == row["value"]
    IN IF notna(value) THEN (attr_name :> value) @@ same ELSE same

\* transformer.py:95-101: the platform values of one row of
\* Platform_Specific_Attributes, over the sheet's columns from position j
RECURSIVE platform_values_loop(_, _, _, _)
platform_values_loop(row, columns, j, platform_values) ==
    IF j > Len(columns) THEN platform_values
    ELSE LET column == columns[j]
             value == row[column]
         IN IF /\ str_endswith(column, "_value")
               /\ column /= "attribute_name"
               /\ notna(value)
               /\ str_strip(value) /= ""
            THEN platform_values_loop(
                   row, columns, j + 1,
                   (str_remove(column, "_value") :> str_strip(value))
                      @@ platform_values)
            ELSE platform_values_loop(row, columns, j + 1, platform_values)

\* transformer.py:91-104: one row of Platform_Specific_Attributes
platform_row(platform_specific, row, columns) ==
    LET attr_name == str_strip(row["attribute_name"])
        platform_values == platform_values_loop(row, columns, 1, EmptyDict)
    IN IF DOMAIN platform_values /= {}
       THEN (attr_name :> platform_values) @@ platform_specific
       ELSE platform_specific

\* the two sheets of attributes.xlsx
SameSheetValues == {None, Blank, "Acme", " Red "}
SameSheetRows ==
    {("attribute_name" :> n @@ "value" :> v) :
        n \in {"brand", " color"}, v \in SameSheetValues}
PlatformSheetColumns ==
    <<"attribute_name", "castorama_fr_value", "leroy_merlin_value", "notes">>
PlatformSheetValues == {None, Blank, " 2y"}
PlatformSheetRows ==
    {("attribute_name" :> "warranty" @@ "castorama_fr_value" :> v1
        @@ "leroy_merlin_value" :> v2 @@ "notes" :> "n") :
        v1 \in PlatformSheetValues, v2 \in PlatformSheetValues}
SheetStates == {"ok", "no_platform_sheet", "no_file"}

LaInit(sheets, same_rows, platform_rows) ==
    [pc |-> "start", sheets |-> sheets, same_df |-> same_rows,
     platform_df |-> platform_rows, i |-> 1, attributes |-> EmptyStore,
     ret |-> EmptyStore]

InitLa ==
    /\ genIdle
    /\ tr = trIdle
    /\ col = colIdle
    /\ dl = dlIdle
    /\ mt = mtIdle
    /\ \E sheets \in SheetStates :
         \/ \E same_rows \in SeqsUpTo(SameSheetRows, MaxSheetRows) :
              la = LaInit(sheets, same_rows,
                          << CHOOSE r \in PlatformSheetRows :
                               /\ r["castorama_fr_value"] = " 2y"
                               /\ r["leroy_merlin_value"] = Blank >>)
         \/ \E platform_rows \in SeqsUpTo(PlatformSheetRows, MaxSheetRows) :
              la = LaInit(sheets,
                          << ("attribute_name" :> "brand" @@ "value" :> "Acme") >>,
                          platform_rows)

\* transformer.py:76-82: the empty store, then read Same_Input_Attributes
LaStart ==
    /\ la.pc = "start"
    /\ IF la.sheets = "no_file"
       THEN la' = [la EXCEPT !.pc = "done", !.ret = EmptyStore]
       ELSE la' = [la EXCEPT !.pc = "same", !.i = 1,
                             !.attributes = EmptyStore]
    /\ UNCHANGED <<genVars, tr, col, dl, mt>>

\* transformer.py:83-87: one iteration of the loop over the same-input rows
LaSameRow ==
    /\ la.pc = "same"
    /\ la.i <= Len(la.same_df)
    /\ la' = [la EXCEPT !.attributes.same = same_row(@, la.same_df[la.i]),
                        !.i = @ + 1]
    /\ UNCHANGED <<genVars, tr, col, dl, mt>>

\* transformer.py:90: read Platform_Specific_Attributes
LaReadPlatformSheet ==
    /\ la.pc = "same"
    /\ la.i > Len(la.same_df)
    /\ IF la.sheets = "no_platform_sheet"
       THEN la' = [la EXCEPT !.pc = "done", !.ret = EmptyStore]
       ELSE la' = [la EXCEPT !.pc = "platform", !.i = 1]
    /\ UNCHANGED <<genVars, tr, col, dl, mt>>

\* transformer.py:91-104: one iteration of the loop over the platform rows
LaPlatformRow ==
    /\ la.pc = "platform"
    /\ la.i <= Len(la.platform_df)
    /\ la' = [la EXCEPT
          !.attributes.platform_specific =
              platform_row(@, la.platform_df[la.i], PlatformSheetColumns),
          !.i = @ + 1]
    /\ UNCHANGED <<genVars, tr, col, dl, mt>>

\* transformer.py:106-108
LaReturn ==
    /\ la.pc = "platform"
    /\ la.i > Len(la.platform_df)
    /\ la' = [la EXCEPT !.pc = "done", !.ret = la.attributes]
    /\ UNCHANGED <<genVars, tr, col, dl, mt>>

NextLa ==
    LaStart \/ LaSameRow \/ LaReadPlatformSheet \/ LaPlatformRow \/ LaReturn

SpecLa == InitLa /\ [][NextLa]_vars

\* a value that is missing, empty or blank
EmptyValue(v) == ~notna(v) \/ str_strip(v) = ""

\* no value of the store is missing, empty or blank, and no attribute of
\* platform_specific is without platforms
NoEmptyValue(store) ==
    /\ \A a \in DOMAIN store.same : ~EmptyValue(store.same[a])
    /\ \A a \in DOMAIN store.platform_specific :
          /\ DOMAIN store.platform_specific[a] /= {}
          /\ \A p \in DOMAIN store.platform_specific[a] :
                ~EmptyValue(store.platform_specific[a][p])

\* C26: the store load_attributes builds and returns never holds an empty
\* value: a same-input attribute whose value is missing or blank is not in
\* it, a platform-specific attribute holds only the platforms with a
\* non-blank value, and an attribute without any is not in it.
C26_Original ==
    la.pc /= "off" => NoEmptyValue(la.attributes) /\ NoEmptyValue(la.ret)

\* ============================================ DeepLService.translate
MaxDeepLCalls == 3

\* deepl_config.py:29-33
DEEPL_FREE_LIMITS ==
    [monthly_characters |-> 500000, daily_requests |-> 1000,
     concurrent_requests |-> 1]

\* deepl_config.py:89-97: usage_data after _reset_monthly_usage
reset_monthly_usage(usage_data, current_month) ==
    IF usage_data.current_month /= current_month
    THEN [usage_data EXCEPT !.current_month = current_month,
                            !.monthly_usage = [characters |-> 0, requests |-> 0]]
    ELSE usage_data

\* deepl_config.py:100-110: usage_data after _reset_daily_usage; daily_usage
\* holds one day
reset_daily_usage(usage_data, today) ==
    IF usage_data.daily_usage.day /= today
    THEN [usage_data EXCEPT
            !.daily_usage = [day |-> today, characters |-> 0, requests |-> 0]]
    ELSE usage_data

\* can_translate that lets the request through at the daily request limit
can_translate_past_limit(usage_data, text_length) ==
    LET daily_usage == usage_data.daily_usage
        monthly_usage == usage_data.monthly_usage
    IN IF daily_usage.requests > DEEPL_FREE_LIMITS.daily_requests
       THEN FALSE
       ELSE IF daily_usage.characters + text_length
                  > DEEPL_FREE_LIMITS.monthly_characters
       THEN FALSE
       ELSE IF monthly_usage.characters + text_length
                  > DEEPL_FREE_LIMITS.monthly_characters
       THEN FALSE
       ELSE TRUE

\* deepl_config.py:117-135: the answer of can_translate on usage_data after
\* the two resets
can_translate(usage_data, text_length) ==
    LET daily_usage == usage_data.daily_usage
        monthly_usage == usage_data.monthly_usage
    IN IF daily_usage.requests >= DEEPL_FREE_LIMITS.daily_requests
       THEN FALSE
       ELSE IF daily_usage.characters + text_length
                  > DEEPL_FREE_LIMITS.monthly_characters
       THEN FALSE
       ELSE IF monthly_usage.characters + text_length
                  > DEEPL_FREE_LIMITS.monthly_characters
       THEN FALSE
       ELSE TRUE

\* deepl_config.py:137-149
record_translation(usage_data, text_length) ==
    [usage_data EXCEPT
        !.daily_usage.characters = @ + text_length,
        !.daily_usage.requests = @ + 1,
        !.monthly_usage.characters = @ + text_length,
        !.monthly_usage.requests = @ + 1]

\* the day and month of the calls, and the ones before them
Today == "d1"
ThisMonth == "m1"
Days == {"d0", Today}
Months == {"m0", ThisMonth}

\* counts a usage file within the free-tier limits may hold, text lengths,
\* and what the HTTP request may come to: status 200 with a translation,
\* status 200 with a body without one, status 456, another status, an
\* exception
StartCharacters == {0, 499990, 500000}
StartRequests == {0, 999, 1000}
TextLengths == {0, 5, 10, 11, 500000}
Responses == {"200", "200_malformed", "456", "500", "exception"}

NoCall == [text_length |-> 0, api_key |-> FALSE, accepted |-> FALSE,
           response |-> "none",
           checked |-> [current_month |-> ThisMonth,
                        daily_usage |-> [day |-> Today, characters |-> 0,
                                         requests |-> 0],
                        monthly_usage |-> [characters |-> 0, requests |-> 0]]]

InitDl ==
    /\ genIdle
    /\ tr = trIdle
    /\ col = colIdle
    /\ la = laIdle
    /\ mt = mtIdle
    /\ \E api_key \in BOOLEAN, day \in Days, month \in Months,
          dc \in StartCharacters, dr \in StartRequests,
          mc \in StartCharacters :
         dl = [pc |-> "ready", api_key |-> api_key, n |-> 0,
               usage_data |->
                   [current_month |-> month,
                    daily_usage |-> [day |-> day, characters |-> dc,
                                     requests |-> dr],
                    monthly_usage |-> [characters |-> mc, requests |-> dr]],
               last |-> NoCall]

\* translation.py:199-269: one call of DeepLService.translate
DlTranslate ==
    /\ dl.pc = "ready"
    /\ dl.n < MaxDeepLCalls
    /\ \E text_length \in TextLengths, response \in Responses :
         LET checked == reset_daily_usage(
                          reset_monthly_usage(dl.usage_data, ThisMonth), Today)
             accepted == can_translate(checked, text_length)
         IN IF ~dl.api_key
            THEN dl' = [dl EXCEPT
                   !.n = @ + 1,
                   !.last = [text_length |-> text_length, api_key |-> FALSE,
                             accepted |-> FALSE, response |-> "none",
                             checked |-> dl.usage_data]]
            ELSE IF ~accepted
            THEN dl' = [dl EXCEPT
                   !.n = @ + 1,
                   !.usage_data = checked,
                   !.last = [text_length |-> text_length, api_key |-> TRUE,
                             accepted |-> FALSE, response |-> "none",
                             checked |-> checked]]
            ELSE dl' = [dl EXCEPT
                   !.n = @ + 1,
                   !.usage_data = IF response = "200"
                                  THEN record_translation(checked, text_length)
                                  ELSE checked,
                   !.last = [text_length |-> text_length, api_key |-> TRUE,
                             accepted |-> TRUE, response |-> response,
                             checked |-> checked]]
    /\ UNCHANGED <<genVars, tr, col, la, mt>>

NextDl == DlTranslate

SpecDl == InitDl /\ [][NextDl]_vars

\* C27: the recorded daily and monthly character counts never exceed
\* 500000 and the recorded daily request count never exceeds 1000; and the
\* last call changed the counters only if can_translate accepted it and the
\* provider answered 200 with a translation, in which case it added the
\* text length to both character counts and one to both request counts.
C27_WithinFreeTier ==
    dl.pc /= "off" =>
      /\ dl.usage_data.daily_usage.characters <= 500000
      /\ dl.usage_data.monthly_usage.characters <= 500000
      /\ dl.usage_data.daily_usage.requests <= 1000
      /\ dl.n > 0 =>
           IF dl.last.api_key /\ dl.last.accepted /\ dl.last.response = "200"
           THEN dl.usage_data = record_translation(dl.last.checked,
                                                   dl.last.text_length)
           ELSE dl.usage_data = dl.last.checked

\* both daily limits reached exactly by a recorded call, and the next call
\* turned away
C27_Witness ==
    /\ dl.pc = "ready"
    /\ dl.n >= 2
    /\ dl.api_key
    /\ dl.usage_data.daily_usage.characters = 500000
    /\ dl.usage_data.daily_usage.requests = 1000
    /\ dl.usage_data.monthly_usage.characters > 0
    /\ ~dl.last.accepted
    /\ dl.last.text_length = 0

\* a recorded call
C27_WitnessRecorded ==
    /\ dl.pc = "ready"
    /\ dl.n >= 1
    /\ dl.last.accepted
    /\ dl.last.response = "200"
    /\ dl.last.text_length = 10
    /\ dl.last.checked.daily_usage.characters = 499990
    /\ dl.last.checked.daily_usage.requests = 999
    /\ dl.usage_data.daily_usage.characters = 500000
    /\ dl.usage_data.daily_usage.requests = 1000

\* ============================= MultimarketplaceTransformer (core/transformer.py)
MaxMasterRows == 2

\* str.upper() on a string
RECURSIVE str_upper(_)
str_upper(s) ==
    IF Len(s) = 0 THEN s
    ELSE upper_char(SubSeq(s, 1, 1)) \o str_upper(SubSeq(s, 2, Len(s)))

\* settings.py:40
TRANSLATION_PLACEHOLDER_PREFIX == TRUE

\* translation.py:18-44
translate_content(text, target_language) ==
    IF ~notna(text) \/ text = "" THEN ""
    ELSE IF TRANSLATION_PLACEHOLDER_PREFIX
    THEN "[" \o str_upper(target_language) \o "] " \o text
    ELSE text

\* platforms.py:26-91: language_fields in dict order (title, description,
\* short_desc, long_desc) and output_filename of every platform
PLATFORM_CONFIGS ==
    ( "castorama_fr" :>
        [language_fields |-> <<"Product Title (Mirakl)", "Description (Mirakl)",
                               None, None>>,
         output_filename |-> "Castorama_FR_generated.xlsx"]
   @@ "castorama_pl" :>
        [language_fields |-> <<"Code for internal use", "Description (Mirakl)",
                               None, None>>,
         output_filename |-> "Castorama_PL_generated.xlsx"]
   @@ "leroy_merlin" :>
        [language_fields |-> <<"Product Title (Mirakl)", "Description (Mirakl)",
                               None, None>>,
         output_filename |-> "LM_product_generated.xlsx"]
   @@ "maxeda_be" :>
        [language_fields |-> <<"Product Title (fr_BE)", "Description (fr_BE)",
                               "Short Description (fr_BE)", None>>,
         output_filename |-> "Maxeda_BE_generated.xlsx"]
   @@ "maxeda_nl" :>
        [language_fields |-> <<"Product Title (nl_NL)", "Description (nl_NL)",
                               "Short Description (nl_NL)", None>>,
         output_filename |-> "Maxeda_NL_generated.xlsx"] )

\* platforms.py:94-100
LANGUAGE_MAPPING ==
    ( "castorama_fr" :> "fr" @@ "castorama_pl" :> "pl" @@ "leroy_merlin" :> "fr"
   @@ "maxeda_be" :> "fr" @@ "maxeda_nl" :> "nl" )

\* platforms.py:103-107
COMMON_COLUMNS ==
    <<"EAN", "Brand", "Category", "Product weight (kg)", "Product height (mm)",
      "Product width (mm)", "Product length (mm)",
      "Image 1", "Image 2", "Image 3", "Image 4", "Image 5">>

\* platforms.py:117-119: the keys of PLATFORM_CONFIGS in dict order
get_all_platforms ==
    <<"castorama_fr", "castorama_pl", "leroy_merlin", "maxeda_be", "maxeda_nl">>

\* platforms.py:113-115
get_language_for_platform(p) == LANGUAGE_MAPPING[p]

IsName(field_name) == field_name /= None

\* platforms.py:121-135
get_platform_columns(p) ==
    COMMON_COLUMNS \o SelectSeq(PLATFORM_CONFIGS[p].language_fields, IsName)

\* settings.py:61-67, as the file name under the output directory
output_file_path(p) == PLATFORM_CONFIGS[p].output_filename

\* data frames: [columns, rows], a row holding one value per column
EmptyFrame == [columns |-> <<>>, rows |-> <<>>]
frame_empty(df) == Len(df.columns) = 0 \/ Len(df.rows) = 0
HasColumn(df, name) == \E j \in 1..Len(df.columns) : df.columns[j] = name
ColumnAt(df, name) == CHOOSE j \in 1..Len(df.columns) : df.columns[j] = name

\* core/transformer.py:79-81: one column passed through translate_content
translate_column(df, field_name, target_language) ==
    [df EXCEPT !.rows =
        [r \in 1..Len(df.rows) |->
            [df.rows[r] EXCEPT ![ColumnAt(df, field_name)] =
                translate_content(@, target_language)]]]

\* core/transformer.py:76-81: the loop over config.language_fields
RECURSIVE apply_translations(_, _, _, _)
apply_translations(df, language_fields, j, target_language) ==
    IF j > Len(language_fields) THEN df
    ELSE LET field_name == language_fields[j]
         IN IF IsName(field_name) /\ HasColumn(df, field_name)
            THEN apply_translations(
                   translate_column(df, field_name, target_language),
                   language_fields, j + 1, target_language)
            ELSE apply_translations(df, language_fields, j + 1,
                                    target_language)

\* core/transformer.py:84-87: keep the platform's columns the frame has
select_columns(df, platform_columns) ==
    LET InFrame(name) == HasColumn(df, name)
        available_columns == SelectSeq(platform_columns, InFrame)
    IN [columns |-> available_columns,
        rows |-> [r \in 1..Len(df.rows) |->
                    [j \in 1..Len(available_columns) |->
                        df.rows[r][ColumnAt(df, available_columns[j])]]]]

\* core/transformer.py:56-90: the frame as the translations leave it, and
\* the platform frame returned
translated_frame(df, p) ==
    apply_translations(df, PLATFORM_CONFIGS[p].language_fields, 1,
                       get_language_for_platform(p))
mt_generate_platform_file(df, p) ==
    IF p \notin DOMAIN PLATFORM_CONFIGS THEN EmptyFrame
    ELSE select_columns(translated_frame(df, p), get_platform_columns(p))

\* master templates
MasterColumnLists ==
    { <<"EAN", "Product Title (Mirakl)", "Notes">>,
      <<"Product Title (Mirakl)">>,
      <<"Notes">>,
      <<"Product Title (fr_BE)", "Description (Mirakl)">> }
MasterRowChoices(columns) ==
    IF columns = <<"EAN", "Product Title (Mirakl)", "Notes">>
    THEN { <<"E1", "Drill", "n">>, <<"E2", None, "n">> }
    ELSE IF columns = <<"Product Title (Mirakl)">>
    THEN { <<"Drill">>, <<None>>, <<"">> }
    ELSE IF columns = <<"Notes">>
    THEN { <<"n">> }
    ELSE { <<"Perceuse", "Drill">>, <<None, "Saw">>, <<"Scie", None>> }

NoFrameFile == [exists |-> FALSE, df |-> EmptyFrame]

MtInit(ok, df) ==
    [pc |-> "start", template |-> [ok |-> ok, df |-> df],
     df |-> EmptyFrame, df0 |-> EmptyFrame, i |-> 1,
     generated_files |-> EmptyDict, self_generated_files |-> EmptyDict,
     disk |-> [p \in DOMAIN PLATFORM_CONFIGS |-> NoFrameFile],
     log |-> <<>>, ret |-> EmptyDict]

InitMt ==
    /\ genIdle
    /\ tr = trIdle
    /\ col = colIdle
    /\ la = laIdle
    /\ dl = dlIdle
    /\ \E ok \in BOOLEAN, columns \in MasterColumnLists :
         \E rows \in SeqsUpTo(MasterRowChoices(columns), MaxMasterRows) :
            mt = MtInit(ok, [columns |-> columns, rows |-> rows])

\* core/transformer.py:27-38 and 115-120: load the master template
MtLoad ==
    /\ mt.pc = "start"
    /\ LET df == IF mt.template.ok THEN mt.template.df ELSE EmptyFrame
       IN IF frame_empty(df)
          THEN mt' = [mt EXCEPT !.pc = "done", !.df = df, !.df0 = df,
                                !.ret = EmptyDict]
          ELSE mt' = [mt EXCEPT !.pc = "loop", !.df = df, !.df0 = df,
                                !.i = 1, !.generated_files = EmptyDict]
    /\ UNCHANGED <<genVars, tr, col, la, dl>>

\* MtPlatform whose generation translates the master frame itself
MtPlatform_in_place ==
    /\ mt.pc = "loop"
    /\ mt.i <= Len(get_all_platforms)
    /\ LET p == get_all_platforms[mt.i]
           platform_df == mt_generate_platform_file(mt.df, p)
       IN IF frame_empty(platform_df)
          THEN mt' = [mt EXCEPT
                 !.i = @ + 1,
                 !.df = translated_frame(mt.df, p),
                 !.log = Append(@, [platform |-> p, input |-> mt.df,
                                    empty |-> TRUE, saved |-> FALSE])]
          ELSE \E saved \in BOOLEAN :
                 mt' = [mt EXCEPT
                   !.i = @ + 1,
                   !.df = translated_frame(mt.df, p),
                   !.disk = IF saved
                            THEN [@ EXCEPT ![p] = [exists |-> TRUE,
                                                   df |-> platform_df]]
                            ELSE @,
                   !.generated_files =
                       IF saved THEN (p :> output_file_path(p)) @@ @ ELSE @,
                   !.log = Append(@, [platform |-> p, input |-> mt.df,
                                      empty |-> FALSE, saved |-> saved])]
    /\ UNCHANGED <<genVars, tr, col, la, dl>>

\* core/transformer.py:123-128: one platform: generate, and save unless the
\* platform frame is empty; save_platform_file (92-111) gives "" when
\* writing raised
MtPlatform ==
    /\ mt.pc = "loop"
    /\ mt.i <= Len(get_all_platforms)
    /\ LET p == get_all_platforms[mt.i]
           platform_df == mt_generate_platform_file(mt.df, p)
       IN IF frame_empty(platform_df)
          THEN mt' = [mt EXCEPT
                 !.i = @ + 1,
                 !.log = Append(@, [platform |-> p, input |-> mt.df,
                                    empty |-> TRUE, saved |-> FALSE])]
          ELSE \E saved \in BOOLEAN :
                 mt' = [mt EXCEPT
                   !.i = @ + 1,
                   !.disk = IF saved
                            THEN [@ EXCEPT ![p] = [exists |-> TRUE,
                                                   df |-> platform_df]]
                            ELSE @,
                   !.generated_files =
                       IF saved THEN (p :> output_file_path(p)) @@ @ ELSE @,
                   !.log = Append(@, [platform |-> p, input |-> mt.df,
                                      empty |-> FALSE, saved |-> saved])]
    /\ UNCHANGED <<genVars, tr, col, la, dl>>

\* core/transformer.py:130-131
MtReturn ==
    /\ mt.pc = "loop"
    /\ mt.i > Len(get_all_platforms)
    /\ mt' = [mt EXCEPT !.pc = "done",
                        !.self_generated_files = mt.generated_files,
                        !.ret = mt.generated_files]
    /\ UNCHANGED <<genVars, tr, col, la, dl>>

NextMt == MtLoad \/ MtPlatform \/ MtReturn

SpecMt == InitMt /\ [][NextMt]_vars

\* the platforms the run generated a non-empty frame for and saved
GeneratedAndSaved ==
    {mt.log[k].platform :
        k \in {x \in 1..Len(mt.log) : ~mt.log[x].empty /\ mt.log[x].saved}}

\* C30: the master frame is never changed and every platform is generated
\* from it as it was loaded; the platforms are taken in order, each one
\* whatever happened to those before it; at every point generated_files
\* holds exactly the platforms whose frame was not empty and was saved,
\* each with its output path and with the frame generated from the master
\* on disk; a platform that was empty or whose save failed has no entry;
\* and the run returns generated_files after all platforms.
C30_FailuresIsolated ==
    mt.pc \in {"loop", "done"} =>
      /\ mt.df = mt.df0
      /\ \A k \in 1..Len(mt.log) :
            /\ mt.log[k].platform = get_all_platforms[k]
            /\ mt.log[k].input = mt.df0
            /\ mt.log[k].empty
                  = frame_empty(mt_generate_platform_file(mt.df0,
                                                          mt.log[k].platform))
      /\ DOMAIN mt.generated_files = GeneratedAndSaved
      /\ \A p \in DOMAIN PLATFORM_CONFIGS :
            p \in GeneratedAndSaved
            => /\ mt.generated_files[p] = output_file_path(p)
               /\ mt.disk[p] = [exists |-> TRUE,
                                df |-> mt_generate_platform_file(mt.df0, p)]
      /\ (mt.pc = "done" /\ ~frame_empty(mt.df0))
         => /\ Len(mt.log) = Len(get_all_platforms)
            /\ mt.ret = mt.generated_files
            /\ mt.self_generated_files = mt.generated_files

\* a master with only the title column: the first platform's save failed,
\* the second platform's frame was empty, the third was saved with the
\* title translated from the master value, the last two were empty
C30_Witness ==
    /\ mt.pc = "done"
    /\ mt.df0 = [columns |-> <<"Product Title (Mirakl)">>,
                 rows |-> << <<"Drill">> >>]
    /\ Len(mt.log) = 5
    /\ ~mt.log[1].empty /\ ~mt.log[1].saved
    /\ mt.log[2].empty
    /\ DOMAIN mt.ret = {"leroy_merlin"}
    /\ mt.disk["leroy_merlin"].df.rows = << <<"[FR] Drill">> >>
    /\ mt.df.rows = << <<"Drill">> >>

====
